---------------------------- MODULE Spec2Model ----------------------------
(***************************************************************************)
(* The Intcode virtual machine of advent_of_code_2019/intcode_computer.py: *)
(* the instruction decoder (Instruction.build_from_instruction_int), the   *)
(* growable memory (extend_memory, read_parameter_value) and the           *)
(* fetch-decode-execute loop of IntCodeProgram.run, one loop iteration per *)
(* Step, the diagnostic_code property, and the caller's list that the      *)
(* constructor keeps as the memory.  Python list indexing is modelled as   *)
(* Python does it: an index in -len..-1 addresses a cell counted from the  *)
(* end, any index outside -len..len-1 raises IndexError.                   *)
(***************************************************************************)
EXTENDS Integers, Sequences, FiniteSets, TLC

VARIABLES
    intcode,            \* self.intcode: the memory, cell k of Python is intcode[k+1]
    i,                  \* self.i: the program counter
    relative_base,      \* self.relative_base
    program_input,      \* self.program_input: the input queue
    program_output,     \* self.program_output: the output queue
    ran_to_completion,  \* self.ran_to_completion
    value,              \* run()'s local `value` / the argument of the decoder
    instruction,        \* run()'s local `instruction`: the last decoder result
    status,             \* where the caller and run() are: see Statuses
    entry,              \* what the VM was when the current or last run() was called
    diagnostic,         \* what the last access to diagnostic_code returned or raised
    image,              \* the caller's list that was passed to __init__ as intcode
    aliased,            \* self.intcode is still that list object
    legacy,             \* day_2.py, run_intcode_program on its own copy of the image
    twin,               \* a second VM of the same image, given its input one by one
    clone,              \* day_15.py, the droid that copy.deepcopy made of the droid of the VM
    amps                \* day_07.py, AmplificationProgram.run and its program_list

\* the programs beside the VM
others == <<legacy, twin, clone, amps>>

vars == <<intcode, i, relative_base, program_input, program_output,
          ran_to_completion, value, instruction, status, entry, diagnostic, image,
          aliased, others>>

\* run_intcode_program of day_2.py has not been called
NoLegacy == [intcode |-> <<>>, i |-> 0, status |-> "idle"]

\* there is no second VM
NoTwin == [status |-> "idle"]

\* no droid has been copied
NoClone == [status |-> "idle"]

\* AmplificationProgram.run has not been called
NoAmps == [status |-> "idle"]

\* there is the VM and its caller, and nothing else
Alone == legacy = NoLegacy /\ twin = NoTwin /\ clone = NoClone /\ amps = NoAmps

---------------------------------------------------------------------------
(* Bounds of the model *)

MaxRaw == 30000
MaxMem == 8
MaxVal == 12
MaxOutput == 2
MaxInput == 2
MaxInputVal == 1

---------------------------------------------------------------------------
(* class OpCode, class ParameterMode *)

ADD == 1
MULTIPLY == 2
SAVE_TO_ADDRESS == 3
READ_FROM_ADDRESS == 4
JUMP_IF_TRUE == 5
JUMP_IF_FALSE == 6
LESS_THAN == 7
EQUALS == 8
ADJUST_RELATIVE_BASE == 9
FINISHED == 99

POSITION == 0
IMMEDIATE == 1
RELATIVE == 2

\* OpCode(n) succeeds exactly for the members of the enumeration
OpCodes == {ADD, MULTIPLY, SAVE_TO_ADDRESS, READ_FROM_ADDRESS, JUMP_IF_TRUE,
            JUMP_IF_FALSE, LESS_THAN, EQUALS, ADJUST_RELATIVE_BASE, FINISHED}

\* ParameterMode(n) succeeds exactly for the members of the enumeration
ParameterModes == {POSITION, IMMEDIATE, RELATIVE}

expected_parameter_count(op) ==
    IF op \in {ADD, MULTIPLY} THEN 3
    ELSE IF op \in {SAVE_TO_ADDRESS, READ_FROM_ADDRESS, ADJUST_RELATIVE_BASE} THEN 1
    ELSE IF op = FINISHED THEN 0
    ELSE IF op \in {JUMP_IF_TRUE, JUMP_IF_FALSE} THEN 2
    ELSE 3  \* LESS_THAN, EQUALS

---------------------------------------------------------------------------
(* Python's str(int), int(str), slicing and zero-padded formatting.  A     *)
(* string is a sequence of one-character strings.                          *)

DigitChars == <<"0", "1", "2", "3", "4", "5", "6", "7", "8", "9">>

IsDigitChar(c) == \E d \in 1..10 : DigitChars[d] = c

CharVal(c) == (CHOOSE d \in 1..10 : DigitChars[d] = c) - 1

RECURSIVE NatStr(_)
NatStr(n) ==
    IF n < 10 THEN <<DigitChars[n + 1]>>
    ELSE Append(NatStr(n \div 10), DigitChars[(n % 10) + 1])

\* a str(n) that drops the sign
StrUnsigned(n) == IF n < 0 THEN NatStr(-n) ELSE NatStr(n)

\* str(n)
Str(n) == IF n < 0 THEN <<"-">> \o NatStr(-n) ELSE NatStr(n)

RECURSIVE DigitsVal(_)
DigitsVal(s) ==
    IF s = <<>> THEN 0
    ELSE 10 * DigitsVal(SubSeq(s, 1, Len(s) - 1)) + CharVal(s[Len(s)])

AllDigits(s) == \A k \in 1..Len(s) : IsDigitChar(s[k])

\* int(s) raises ValueError unless s is an optional sign and at least one digit
IntOk(s) ==
    /\ s # <<>>
    /\ IF s[1] = "-" THEN Len(s) >= 2 /\ AllDigits(Tail(s)) ELSE AllDigits(s)

\* int(s), for a string IntOk accepts
Int_(s) == IF s[1] = "-" THEN 0 - DigitsVal(Tail(s)) ELSE DigitsVal(s)

\* s[-2:]
LastTwo(s) == IF Len(s) <= 2 THEN s ELSE SubSeq(s, Len(s) - 1, Len(s))

\* s[:-2]
AllButLastTwo(s) == IF Len(s) <= 2 THEN <<>> ELSE SubSeq(s, 1, Len(s) - 2)

Zeros(n) == [k \in 1..n |-> "0"]

\* f'{n:0{w}d}': sign first, then zeros up to a total width of w, never cut
ZeroPad(n, w) ==
    LET d == NatStr(IF n < 0 THEN -n ELSE n)
        sign == IF n < 0 THEN <<"-">> ELSE <<>>
        fill == w - Len(sign) - Len(d)
    IN  sign \o (IF fill > 0 THEN Zeros(fill) ELSE <<>>) \o d

\* reversed(s)
Reversed(s) == [k \in 1..Len(s) |-> s[Len(s) + 1 - k]]

---------------------------------------------------------------------------
(* Instruction.build_from_instruction_int *)

\* The decoder's result: an Instruction, or the ValueError it raised
DecodeError == [error |-> "ValueError", op_code |-> 0, parameter_mode_list |-> <<>>]

NoInstruction == [error |-> "unset", op_code |-> 0, parameter_mode_list |-> <<>>]

\* diagnostic_code has not been accessed
NoDiagnostic == [outcome |-> "none", code |-> 0]

MakeInstruction(op, modes) ==
    [error |-> "none", op_code |-> op, parameter_mode_list |-> modes]

\* a decoder that reads the mode digits left to right
ModeOrderUnreversed(param_modes_str) == param_modes_str

\* [ParameterMode(int(x)) for x in reversed(param_modes_str)]
ModeOrder(param_modes_str) == Reversed(param_modes_str)

\* the padding of the mode digits to the opcode's parameter count (line 87)
PadModes(n, parameter_count) == ZeroPad(n, parameter_count)

build_from_instruction_int(v) ==
    LET digits_str == Str(v)
        op_str == LastTwo(digits_str)
        param_modes_str == AllButLastTwo(digits_str)
    IN  IF ~IntOk(op_str) THEN DecodeError
        ELSE IF Int_(op_str) \notin OpCodes THEN DecodeError
        ELSE LET op_code == Int_(op_str)
                 parameter_count == expected_parameter_count(op_code)
             IN  IF param_modes_str = <<>>
                 THEN MakeInstruction(op_code, [k \in 1..parameter_count |-> POSITION])
                 ELSE IF ~IntOk(param_modes_str) THEN DecodeError
                 ELSE LET padded == PadModes(Int_(param_modes_str), parameter_count)
                          ordered == ModeOrder(padded)
                      IN  IF \A k \in 1..Len(ordered) :
                                 /\ IsDigitChar(ordered[k])
                                 /\ CharVal(ordered[k]) \in ParameterModes
                          THEN MakeInstruction(op_code,
                                   [k \in 1..Len(ordered) |-> CharVal(ordered[k])])
                          ELSE DecodeError

---------------------------------------------------------------------------
(* The decoder alone, applied to every raw value of a bounded range *)

DecodeInit ==
    /\ intcode = <<>>
    /\ i = 0
    /\ relative_base = 0
    /\ program_input = <<>>
    /\ program_output = <<>>
    /\ ran_to_completion = FALSE
    /\ value \in (0 - MaxRaw)..MaxRaw
    /\ instruction = NoInstruction
    /\ status = "constructed"
    /\ entry = "none"
    /\ diagnostic = NoDiagnostic
    /\ image = intcode
    /\ aliased = TRUE
    /\ Alone

Decode ==
    /\ instruction = NoInstruction
    /\ instruction' = build_from_instruction_int(value)
    /\ UNCHANGED <<intcode, i, relative_base, program_input, program_output,
                   ran_to_completion, value, status, entry, diagnostic, image,
                   aliased, others>>

DecodeNext == Decode

DecodeSpec == DecodeInit /\ [][DecodeNext]_vars

---------------------------------------------------------------------------
(* Python list indexing *)

\* list[k] is defined for -len <= k < len
IndexOk(list, k) == k >= 0 - Len(list) /\ k < Len(list)

\* the position (1-based) that Python index k addresses
Slot(list, k) == IF k >= 0 THEN k + 1 ELSE Len(list) + k + 1

GetItem(list, k) == list[Slot(list, k)]

SetItem(list, k, x) == [list EXCEPT ![Slot(list, k)] = x]

---------------------------------------------------------------------------
(* IntCodeProgram: memory *)

\* an extension that cuts the memory down to the index when it is longer
extend_memory_truncating(mem, index) ==
    LET indices_to_add == index + 1 - Len(mem)
    IN  IF indices_to_add > 0
        THEN mem \o [k \in 1..indices_to_add |-> 0]
        ELSE SubSeq(mem, 1, index + 1)

\* lines 156-168
extend_memory(mem, index) ==
    LET indices_to_add == index + 1 - Len(mem)
    IN  IF indices_to_add > 0
        THEN mem \o [k \in 1..indices_to_add |-> 0]
        ELSE mem

\* a RELATIVE parameter resolved without the relative base
parameter_value_index_without_base(parameter, mode, rb) == parameter

\* the index a POSITION or RELATIVE parameter refers to (lines 144-148)
parameter_value_index(parameter, mode, rb) ==
    IF mode = RELATIVE THEN parameter + rb ELSE parameter

\* Returns the value read, the memory (the read may extend it) and the error raised
read_parameter_value(mem, rb, index, mode) ==
    IF ~IndexOk(mem, index)
    THEN [error |-> "IndexError", intcode |-> mem, parameter_value |-> 0]
    ELSE LET parameter == GetItem(mem, index)
         IN  IF mode = IMMEDIATE
             THEN [error |-> "none", intcode |-> mem, parameter_value |-> parameter]
             ELSE IF mode \in {POSITION, RELATIVE}
             THEN LET idx == parameter_value_index(parameter, mode, rb)
                      mem2 == extend_memory(mem, idx)
                  IN  IF IndexOk(mem2, idx)
                      THEN [error |-> "none", intcode |-> mem2,
                            parameter_value |-> GetItem(mem2, idx)]
                      ELSE [error |-> "IndexError", intcode |-> mem2,
                            parameter_value |-> 0]
             ELSE [error |-> "ValueError", intcode |-> mem, parameter_value |-> 0]

---------------------------------------------------------------------------
(* IntCodeProgram.run: one iteration of its loop, as a function of the VM. *)
(* The result is the VM after the iteration and how the iteration ended:   *)
(* "continue" (loop again), "return", or the exception raised.             *)

VM == [intcode |-> intcode, i |-> i, relative_base |-> relative_base,
       program_input |-> program_input, program_output |-> program_output,
       ran_to_completion |-> ran_to_completion]

Outcome(vm, how, increment) ==
    [vm |-> vm, outcome |-> how, increment_by_parameter_count |-> increment]

Raise(vm, mem, exception) == Outcome([vm EXCEPT !.intcode = mem], exception, FALSE)

\* a HALT that steps over its own cell
ExecFinishedAdvancing(vm) ==
    Outcome([vm EXCEPT !.ran_to_completion = TRUE, !.i = vm.i + 1], "return", FALSE)

\* lines 193-196
ExecFinished(vm) ==
    Outcome([vm EXCEPT !.ran_to_completion = TRUE], "return", FALSE)

\* LESS_THAN with its operands the other way round
ComputeSwapped(op, num0, num1) ==
    IF op = ADD THEN num0 + num1
    ELSE IF op = MULTIPLY THEN num0 * num1
    ELSE IF op = LESS_THAN THEN (IF num1 < num0 THEN 1 ELSE 0)
    ELSE (IF num0 = num1 THEN 1 ELSE 0)

\* lines 203-210
Compute(op, num0, num1) ==
    IF op = ADD THEN num0 + num1
    ELSE IF op = MULTIPLY THEN num0 * num1
    ELSE IF op = LESS_THAN THEN (IF num0 < num1 THEN 1 ELSE 0)
    ELSE (IF num0 = num1 THEN 1 ELSE 0)

\* lines 197-226
ExecArithmetic(vm, ins) ==
    LET p == vm.i + 1
        rb == vm.relative_base
        modes == ins.parameter_mode_list
        r0 == read_parameter_value(vm.intcode, rb, p, modes[1])
    IN  IF r0.error # "none" THEN Raise(vm, r0.intcode, r0.error)
        ELSE
        LET r1 == read_parameter_value(r0.intcode, rb, p + 1, modes[2])
        IN  IF r1.error # "none" THEN Raise(vm, r1.intcode, r1.error)
            ELSE
            LET result == Compute(ins.op_code, r0.parameter_value, r1.parameter_value)
                mem == r1.intcode
                result_mode == modes[3]
            IN  IF result_mode \notin {POSITION, RELATIVE}
                THEN Raise(vm, mem, "ValueError")
                ELSE IF ~IndexOk(mem, p + 2) THEN Raise(vm, mem, "IndexError")
                ELSE
                LET address == IF result_mode = POSITION
                               THEN GetItem(mem, p + 2)
                               ELSE GetItem(mem, p + 2) + rb
                    mem2 == extend_memory(mem, address)
                IN  IF ~IndexOk(mem2, address) THEN Raise(vm, mem2, "IndexError")
                    ELSE Outcome([vm EXCEPT !.intcode = SetItem(mem2, address, result)],
                                 "continue", TRUE)

\* a suspension that steps over the INPUT instruction
SuspendSkipping(vm, mem) ==
    Outcome([vm EXCEPT !.intcode = mem, !.ran_to_completion = FALSE, !.i = vm.i + 2],
            "return", FALSE)

\* lines 250-255: the input queue is empty
Suspend(vm, mem) ==
    Outcome([vm EXCEPT !.intcode = mem, !.ran_to_completion = FALSE], "return", FALSE)

\* an INPUT that takes the value pushed last
StoreInputNewest(vm, mem, num) ==
    LET popped == vm.program_input[Len(vm.program_input)]
        after == [vm EXCEPT !.program_input =
                                SubSeq(vm.program_input, 1, Len(vm.program_input) - 1)]
    IN  IF ~IndexOk(mem, num) THEN Raise(after, mem, "IndexError")
        ELSE Outcome([after EXCEPT !.intcode = SetItem(mem, num, popped)],
                     "continue", TRUE)

\* line 256: self.intcode[num] = self.program_input.pop(0); the pop comes first
StoreInput(vm, mem, num) ==
    LET popped == Head(vm.program_input)
        after == [vm EXCEPT !.program_input = Tail(vm.program_input)]
    IN  IF ~IndexOk(mem, num) THEN Raise(after, mem, "IndexError")
        ELSE Outcome([after EXCEPT !.intcode = SetItem(mem, num, popped)],
                     "continue", TRUE)

\* lines 233-256
ExecSave(vm, ins) ==
    LET p == vm.i + 1
        mode == ins.parameter_mode_list[1]
        mem == vm.intcode
    IN  IF mode \notin {POSITION, RELATIVE} THEN Raise(vm, mem, "ValueError")
        ELSE IF ~IndexOk(mem, p) THEN Raise(vm, mem, "IndexError")
        ELSE
        LET num == IF mode = POSITION
                   THEN GetItem(mem, p)
                   ELSE GetItem(mem, p) + vm.relative_base
            mem2 == IF mode = RELATIVE THEN extend_memory(mem, num) ELSE mem
        IN  IF vm.program_input = <<>> THEN Suspend(vm, mem2)
            ELSE StoreInput(vm, mem2, num)

\* an OUTPUT that puts its value at the front of the queue
ExecReadPrepending(vm, ins) ==
    LET r == read_parameter_value(vm.intcode, vm.relative_base, vm.i + 1,
                                  ins.parameter_mode_list[1])
    IN  IF r.error # "none" THEN Raise(vm, r.intcode, r.error)
        ELSE Outcome([vm EXCEPT !.intcode = r.intcode,
                                !.program_output = <<r.parameter_value>> \o
                                                   vm.program_output],
                     "continue", TRUE)

\* lines 258-262
ExecRead(vm, ins) ==
    LET r == read_parameter_value(vm.intcode, vm.relative_base, vm.i + 1,
                                  ins.parameter_mode_list[1])
    IN  IF r.error # "none" THEN Raise(vm, r.intcode, r.error)
        ELSE Outcome([vm EXCEPT !.intcode = r.intcode,
                                !.program_output = Append(vm.program_output,
                                                          r.parameter_value)],
                     "continue", TRUE)

\* lines 269-280: whether the jump is taken
JumpTaken(op, num0) == IF op = JUMP_IF_TRUE THEN num0 # 0 ELSE num0 = 0

\* a taken jump followed by the default advance
ExecJumpThenAdvance(vm, ins) ==
    LET p == vm.i + 1
        rb == vm.relative_base
        modes == ins.parameter_mode_list
        r0 == read_parameter_value(vm.intcode, rb, p, modes[1])
    IN  IF r0.error # "none" THEN Raise(vm, r0.intcode, r0.error)
        ELSE
        LET r1 == read_parameter_value(r0.intcode, rb, p + 1, modes[2])
        IN  IF r1.error # "none" THEN Raise(vm, r1.intcode, r1.error)
            ELSE IF JumpTaken(ins.op_code, r0.parameter_value)
            THEN Outcome([vm EXCEPT !.intcode = r1.intcode, !.i = r1.parameter_value],
                         "continue", TRUE)
            ELSE Outcome([vm EXCEPT !.intcode = r1.intcode], "continue", TRUE)

\* lines 266-282
ExecJump(vm, ins) ==
    LET p == vm.i + 1
        rb == vm.relative_base
        modes == ins.parameter_mode_list
        r0 == read_parameter_value(vm.intcode, rb, p, modes[1])
    IN  IF r0.error # "none" THEN Raise(vm, r0.intcode, r0.error)
        ELSE
        LET r1 == read_parameter_value(r0.intcode, rb, p + 1, modes[2])
        IN  IF r1.error # "none" THEN Raise(vm, r1.intcode, r1.error)
            ELSE IF JumpTaken(ins.op_code, r0.parameter_value)
            THEN Outcome([vm EXCEPT !.intcode = r1.intcode, !.i = r1.parameter_value],
                         "continue", FALSE)
            ELSE Outcome([vm EXCEPT !.intcode = r1.intcode], "continue", TRUE)

\* an adjustment that replaces the relative base
ExecAdjustAssigning(vm, ins) ==
    LET r == read_parameter_value(vm.intcode, vm.relative_base, vm.i + 1,
                                  ins.parameter_mode_list[1])
    IN  IF r.error # "none" THEN Raise(vm, r.intcode, r.error)
        ELSE Outcome([vm EXCEPT !.intcode = r.intcode,
                                !.relative_base = r.parameter_value],
                     "continue", TRUE)

\* lines 283-287
ExecAdjust(vm, ins) ==
    LET r == read_parameter_value(vm.intcode, vm.relative_base, vm.i + 1,
                                  ins.parameter_mode_list[1])
    IN  IF r.error # "none" THEN Raise(vm, r.intcode, r.error)
        ELSE Outcome([vm EXCEPT !.intcode = r.intcode,
                                !.relative_base = vm.relative_base + r.parameter_value],
                     "continue", TRUE)

\* a loop that skips a cell it cannot decode
DecodeFailedSkipsCell(vm) == Outcome([vm EXCEPT !.i = vm.i + 1], "continue", FALSE)

\* lines 176-179: the decoder raised, run() raises ValueError in its turn
DecodeFailed(vm) == Outcome(vm, "ValueError", FALSE)

\* lines 193-289: the branch of the decoded opcode
Execute(vm, ins) ==
    IF ins.op_code = FINISHED THEN ExecFinished(vm)
    ELSE IF ins.op_code \in {ADD, MULTIPLY, LESS_THAN, EQUALS} THEN ExecArithmetic(vm, ins)
    ELSE IF ins.op_code = SAVE_TO_ADDRESS THEN ExecSave(vm, ins)
    ELSE IF ins.op_code = READ_FROM_ADDRESS THEN ExecRead(vm, ins)
    ELSE IF ins.op_code \in {JUMP_IF_TRUE, JUMP_IF_FALSE} THEN ExecJump(vm, ins)
    ELSE ExecAdjust(vm, ins)

\* lines 291-293
IncrementPc(r, op) ==
    IF r.outcome = "continue" /\ r.increment_by_parameter_count
    THEN [r EXCEPT !.vm.i = r.vm.i + 1 + expected_parameter_count(op)]
    ELSE r

\* line 175: the fetch of the instruction word
FetchOk(vm) == IndexOk(vm.intcode, vm.i)

Fetched(vm) == GetItem(vm.intcode, vm.i)

\* lines 175-293: one iteration
RunIteration(vm) ==
    IF ~FetchOk(vm) THEN Outcome(vm, "IndexError", FALSE)
    ELSE LET ins == build_from_instruction_int(Fetched(vm))
         IN  IF ins.error # "none" THEN DecodeFailed(vm)
             ELSE IncrementPc(Execute(vm, ins), ins.op_code)

---------------------------------------------------------------------------
(* The images the VM is constructed from: every image made of one or two   *)
(* of the instruction forms below, and the images of the repository's      *)
(* tests.                                                                  *)

Forms ==
    { <<99>>, <<199>>,
      <<3>>, <<3, 0>>, <<3, 1>>, <<3, 5>>, <<3, -1>>, <<203, 0>>, <<203, 3>>,
      <<203, -3>>, <<103, 0>>,
      <<4, 0>>, <<4, -1>>, <<4, 6>>, <<104, 1>>, <<204, 1>>,
      <<109, 5>>, <<109, -2>>, <<9, 1>>,
      <<1105, 1, 0>>, <<1105, 1, 3>>, <<1105, 1, -1>>, <<1106, 0, 2>>, <<5, 0, 1>>,
      <<6, 1, 2>>,
      <<1, 0, 0, 0>>, <<1101, 1, 1, 5>>, <<1101, 1, -2, -1>>, <<11101, 1, 1, 0>>,
      <<21101, 1, 1, 2>>, <<1002, 1, -1, 1>>, <<2, 0, 9, 3>>,
      <<1107, 0, 1, 0>>, <<8, 1, 1, 6>>, <<1108, 1, 0, 1>>,
      <<0>>, <<10>>, <<100>>, <<-1>>, <<301>> }

\* src/advent_of_code_2019/day_05.py, day_09.py: images of the tests
Fixtures ==
    { <<1, 0, 0, 0, 99>>,
      <<1002, 4, 3, 4, 33>>,
      <<1101, 100, -1, 4, 0>>,
      <<3, 5, 99, 0, 0, 0>>,
      <<3, 0, 4, 0, 99>>,
      <<3, 9, 8, 9, 10, 9, 4, 9, 99, -1, 8>>,
      <<3, 3, 1108, -1, 8, 3, 4, 3, 99>>,
      <<3, 3, 1105, -1, 9, 1101, 0, 0, 12, 4, 12, 99, 1>>,
      <<109, 19, 99>> }

Images == Forms \cup {a \o b : a \in Forms, b \in Forms} \cup Fixtures

\* the values a caller pushes
InputValues == (0 - 1)..MaxInputVal

Abs(n) == IF n < 0 THEN 0 - n ELSE n

\* The model follows an iteration only while the memory length, the output
\* queue, the relative base and every value it writes stay within the bounds
WithinBounds(before, after) ==
    /\ Len(after.intcode) <= MaxMem \/ Len(after.intcode) = Len(before.intcode)
    /\ Len(after.program_output) <= MaxOutput
    /\ Abs(after.relative_base) <= MaxVal
    /\ \A k \in 1..Len(after.intcode) :
           (k > Len(before.intcode) \/ after.intcode[k] # before.intcode[k])
               => Abs(after.intcode[k]) <= MaxVal

---------------------------------------------------------------------------
(* The list the VM was constructed from.  __init__ keeps the caller's list *)
(* itself (self.intcode = intcode, line 102): an assignment to a cell      *)
(* (lines 226, 256) changes that list, until extend_memory binds           *)
(* self.intcode to a new, longer list (line 168).  Within one iteration    *)
(* every extend_memory comes before the assignment to a cell.              *)

StillAliased(before, after) == aliased /\ Len(after.intcode) = Len(before.intcode)

---------------------------------------------------------------------------
(* The VM and its caller *)

Statuses == {"constructed", "entered", "running", "returned", "ValueError", "IndexError"}

InRun == status \in {"entered", "running"}

\* IntCodeProgram.__init__
Init ==
    /\ intcode \in Images
    /\ i = 0
    /\ relative_base = 0
    /\ program_input = <<>>
    /\ program_output = <<>>
    /\ ran_to_completion = FALSE
    /\ value = 0
    /\ instruction = NoInstruction
    /\ status = "constructed"
    /\ entry = "none"
    /\ diagnostic = NoDiagnostic
    /\ image = intcode
    /\ aliased = TRUE
    /\ Alone

\* the caller appends a value to program_input, between two calls of run()
PushInput ==
    /\ ~InRun
    /\ Len(program_input) < MaxInput
    /\ \E v \in InputValues : program_input' = Append(program_input, v)
    /\ UNCHANGED <<intcode, i, relative_base, program_output, ran_to_completion,
                   value, instruction, status, entry, diagnostic, image, aliased,
                   others>>

\* what the VM is when run() is called
EntryKind ==
    IF status = "constructed" THEN "fresh"
    ELSE IF status = "returned"
         THEN (IF ran_to_completion THEN "halted" ELSE "suspended")
         ELSE status

\* the caller calls run()
Run ==
    /\ ~InRun
    /\ status' = "entered"
    /\ entry' = EntryKind
    /\ UNCHANGED <<intcode, i, relative_base, program_input, program_output,
                   ran_to_completion, value, instruction, diagnostic, image, aliased,
                   others>>

\* one iteration of run()'s loop
Step ==
    /\ InRun
    /\ LET r == RunIteration(VM)
       IN  /\ WithinBounds(VM, r.vm)
           /\ intcode' = r.vm.intcode
           /\ i' = r.vm.i
           /\ relative_base' = r.vm.relative_base
           /\ program_input' = r.vm.program_input
           /\ program_output' = r.vm.program_output
           /\ ran_to_completion' = r.vm.ran_to_completion
           /\ value' = IF FetchOk(VM) THEN Fetched(VM) ELSE value
           /\ instruction' = IF FetchOk(VM)
                             THEN build_from_instruction_int(Fetched(VM))
                             ELSE instruction
           /\ status' = IF r.outcome = "continue" THEN "running"
                        ELSE IF r.outcome = "return" THEN "returned"
                        ELSE r.outcome
           /\ aliased' = StillAliased(VM, r.vm)
           /\ image' = IF StillAliased(VM, r.vm) THEN r.vm.intcode ELSE image
    /\ UNCHANGED <<entry, diagnostic, others>>

Next == PushInput \/ Run \/ Step

Spec == Init /\ [][Next]_vars

TypeOK ==
    /\ status \in Statuses
    /\ ran_to_completion \in BOOLEAN
    /\ Len(program_input) <= MaxInput
    /\ Len(program_output) <= MaxOutput

---------------------------------------------------------------------------
(* What the iteration about to run will execute *)

\* the instruction run() decodes next, when the fetch succeeds
Current == build_from_instruction_int(Fetched(VM))

AtInstruction == InRun /\ FetchOk(VM) /\ Current.error = "none"

AtOp(op) == AtInstruction /\ Current.op_code = op

\* an INPUT instruction whose parameter is in POSITION or RELATIVE mode
AtInputWritable ==
    AtOp(SAVE_TO_ADDRESS) /\ Current.parameter_mode_list[1] \in {POSITION, RELATIVE}

\* cell k >= 0 of the logically infinite memory: 0 beyond the backing store
Cell(mem, k) == IF k >= 0 /\ k < Len(mem) THEN mem[k + 1] ELSE 0

\* the instruction word at a program counter i >= 0 of the infinite memory
LogicalCurrent == build_from_instruction_int(Cell(intcode, i))

\* the parameters of that instruction that address memory
AddressParams ==
    IF LogicalCurrent.error # "none" THEN {}
    ELSE {k \in 1..expected_parameter_count(LogicalCurrent.op_code) :
              LogicalCurrent.parameter_mode_list[k] # IMMEDIATE}

\* the address parameter k resolves to
ResolvedAddress(k) ==
    Cell(intcode, i + k)
      + (IF LogicalCurrent.parameter_mode_list[k] = RELATIVE THEN relative_base ELSE 0)

---------------------------------------------------------------------------
(* C1 *)

\* C1: whenever run() reaches an INPUT instruction (POSITION or RELATIVE write
\* mode) while the input queue is empty, run() returns normally with
\* ran_to_completion = False, the program counter on that instruction, and the
\* input queue, the output queue and the relative base as they were.
C1_SuspensionKeepsControlState ==
    [][ (AtInputWritable /\ program_input = <<>>) =>
            /\ status' = "returned"
            /\ ran_to_completion' = FALSE
            /\ i' = i
            /\ UNCHANGED <<program_input, program_output, relative_base>> ]_vars

---------------------------------------------------------------------------
(* C2 *)

\* C2: when run() suspends on an INPUT instruction with an empty input queue,
\* the memory (every cell and the length of the backing store) is what it was
\* before the instruction was decoded, for every write mode and relative base.
C2_SuspensionLeavesMemory ==
    [][ (AtOp(SAVE_TO_ADDRESS) /\ program_input = <<>> /\ status' = "returned")
            => intcode' = intcode ]_vars

---------------------------------------------------------------------------
(* C3 *)

\* C3: after run() has suspended on an INPUT instruction at index p, appending
\* one value v and calling run() again executes the INPUT at p first: it
\* removes exactly v from the queue, writes v to the instruction's resolved
\* write address, moves the program counter to p + 2 and appends no output.
C3_ResumeReexecutesInput ==
    [][ (status = "entered" /\ entry = "suspended" /\ Len(program_input) = 1) =>
            /\ AtInputWritable
            /\ program_input' = <<>>
            /\ i' = i + 2
            /\ program_output' = program_output
            /\ (i >= 0 /\ ResolvedAddress(1) >= 0) =>
                   /\ Len(intcode') > ResolvedAddress(1)
                   /\ intcode'[ResolvedAddress(1) + 1] = program_input[1] ]_vars

---------------------------------------------------------------------------
(* C4 *)

\* C4: when run() decodes HALT it sets ran_to_completion = True and returns
\* without changing the program counter, the memory, the relative base or
\* either queue; and once ran_to_completion is True, whatever the caller
\* pushes and however often it calls run(), every run() returns at its first
\* iteration with ran_to_completion still True and program counter, relative
\* base, memory and output queue unchanged.
C4_HaltIsTerminal ==
    [][ /\ AtOp(FINISHED) =>
               /\ status' = "returned"
               /\ ran_to_completion' = TRUE
               /\ UNCHANGED <<i, intcode, relative_base, program_input, program_output>>
        /\ ran_to_completion =>
               /\ ran_to_completion' = TRUE
               /\ UNCHANGED <<i, intcode, relative_base, program_output>>
               /\ InRun => status' = "returned" ]_vars

\* a halted VM was given input and run again, and has returned
C4_Witness ==
    /\ status = "returned"
    /\ ran_to_completion
    /\ entry = "halted"
    /\ program_input # <<>>

---------------------------------------------------------------------------
(* C5 *)

\* C5: every run() call terminates.  run() is a function of the VM alone, so
\* an iteration that leaves the VM exactly as it found it and loops again
\* repeats for ever: a run() that stops after a bounded number of iterations
\* (by halting, suspending, failing or hitting an execution limit) never
\* makes one.
C5_RunTerminates ==
    [][ (InRun /\ status' = "running") => VM' # VM ]_vars

---------------------------------------------------------------------------
(* C6 *)

\* C6: an iteration at a program counter >= 0 whose parameters all resolve to
\* addresses >= 0 never fails on a memory access: cells beyond the current
\* length read 0 and are created on writing, so no IndexError is raised.
C6_MemoryLogicallyInfinite ==
    [][ (InRun /\ i >= 0 /\ \A k \in AddressParams : ResolvedAddress(k) >= 0)
            => status' # "IndexError" ]_vars

---------------------------------------------------------------------------
(* C7 *)

\* C7: an instruction one of whose parameters resolves to a negative address
\* fails with an error, and neither the memory cells nor the output queue
\* change (an INPUT that finds its queue empty suspends and is left aside).
C7_NegativeAddressRejected ==
    [][ (/\ InRun /\ i >= 0
         /\ \E k \in AddressParams : ResolvedAddress(k) < 0
         /\ ~(AtOp(SAVE_TO_ADDRESS) /\ program_input = <<>>)) =>
            /\ status' \in {"IndexError", "ValueError"}
            /\ intcode' = intcode
            /\ program_output' = program_output ]_vars

---------------------------------------------------------------------------
(* C8 *)

\* C8: for every raw value the decoder decodes successfully, the number of
\* modes equals the parameter count of the decoded opcode.
C8_ModesMatchArity ==
    instruction.error = "none" =>
        Len(instruction.parameter_mode_list)
            = expected_parameter_count(instruction.op_code)

---------------------------------------------------------------------------
(* C9 *)

RECURSIVE Pow10(_)
Pow10(n) == IF n = 0 THEN 1 ELSE 10 * Pow10(n - 1)

\* decimal digit k of v, digit 0 being the last
DigitAt(v, k) == (v \div Pow10(k)) % 10

\* v >= 0 holds a known opcode in its low two digits and at most arity-many
\* higher digits, each a mode
WellFormed(v) ==
    /\ v >= 0
    /\ (v % 100) \in OpCodes
    /\ LET n == expected_parameter_count(v % 100)
       IN  /\ v \div 100 < Pow10(n)
           /\ \A k \in 1..n : DigitAt(v, k + 1) \in ParameterModes

\* C9: for every well-formed raw value v the decoder returns opcode v mod 100
\* and, for k = 1..arity, mode k = (v div 10^(k+1)) mod 10, an elided digit
\* being POSITION.
C9_DigitLayout ==
    (instruction # NoInstruction /\ WellFormed(value)) =>
        /\ instruction.error = "none"
        /\ instruction.op_code = value % 100
        /\ Len(instruction.parameter_mode_list) = expected_parameter_count(value % 100)
        /\ \A k \in 1..expected_parameter_count(value % 100) :
               instruction.parameter_mode_list[k] = DigitAt(value, k + 1)

\* 1002 has been decoded to MULTIPLY [POSITION, IMMEDIATE, POSITION]
C9_Witness ==
    /\ value = 1002
    /\ instruction = MakeInstruction(MULTIPLY, <<POSITION, IMMEDIATE, POSITION>>)

---------------------------------------------------------------------------
(* C10 *)

\* the cell at the program counter is non-negative and its low two digits are
\* no opcode
BadOpcodeAtPc ==
    /\ FetchOk(VM)
    /\ Fetched(VM) >= 0
    /\ (Fetched(VM) % 100) \notin OpCodes

\* C10: an iteration that fetches a non-negative cell whose low two digits are
\* no opcode raises an error and leaves program counter, relative base, memory
\* and both queues as they were; after such a failure the program counter
\* stays on the bad cell, so every later run() fails in the same way.
C10_UnknownOpcodeFatal ==
    [][ /\ (InRun /\ BadOpcodeAtPc) =>
               /\ status' = "ValueError"
               /\ UNCHANGED <<i, relative_base, intcode, program_input, program_output>>
        /\ (status = "ValueError" /\ BadOpcodeAtPc) => BadOpcodeAtPc' ]_vars

\* run() was called again after it had failed, and failed again on the bad cell
C10_Witness ==
    /\ status = "ValueError"
    /\ entry = "ValueError"
    /\ BadOpcodeAtPc
    /\ program_input # <<>>

---------------------------------------------------------------------------
(* The operands of the instruction about to run, in the logically infinite *)
(* memory                                                                  *)

ArithmeticOps == {ADD, MULTIPLY, LESS_THAN, EQUALS}

\* the program counter and every address the instruction resolves are >= 0
AddressesLegal == i >= 0 /\ \A k \in AddressParams : ResolvedAddress(k) >= 0

\* the value parameter k of the instruction at i >= 0 resolves to
Operand(k) ==
    IF LogicalCurrent.parameter_mode_list[k] = IMMEDIATE
    THEN Cell(intcode, i + k)
    ELSE Cell(intcode, ResolvedAddress(k))

\* the two memories hold the same value in every cell the first one has,
\* except perhaps in the cells of the set
SameCellsExcept(before, after, cells) ==
    /\ Len(after) >= Len(before)
    /\ \A k \in 0..(Len(before) - 1) : k \notin cells => after[k + 1] = before[k + 1]

\* an instruction that writes memory: its write parameter
AtWrite == AtInstruction /\ Current.op_code \in ArithmeticOps \cup {SAVE_TO_ADDRESS}

WriteParam == IF Current.op_code = SAVE_TO_ADDRESS THEN 1 ELSE 3

---------------------------------------------------------------------------
(* C11 *)

---------------------------------------------------------------------------
(* The runs of the repository's tests whose values lie beyond the bounds   *)
(* above: each is an image, the input queue and the relative base the test *)
(* sets before it calls run().  These programs end, so run() is followed   *)
(* without bounds.                                                         *)

\* day_09.py, test_part_1_example_1
Quine == <<109, 1, 204, -1, 1001, 100, 1, 100, 1008, 100, 16, 101, 1006, 101, 0, 99>>

\* day_05.py, test_large_example
LargeExample ==
    <<3, 21, 1008, 21, 8, 20, 1005, 20, 22, 107, 8, 21, 20, 1006, 20, 31, 1106, 0, 36,
      98, 0, 0, 1002, 21, 125, 20, 4, 20, 1105, 1, 46, 104, 999, 1105, 1, 46, 1101,
      1000, 1, 20, 4, 20, 1105, 1, 46, 98, 99>>

\* day_05.py, test_jump_position_mode
JumpPosition == <<3, 12, 6, 12, 15, 1, 13, 14, 13, 4, 13, 99, -1, 0, 1, 9>>

\* day_05.py, test_int_code_program_0
Day2Example == <<1, 9, 10, 3, 2, 3, 11, 0, 99, 30, 40, 50>>

\* day_09.py, test_opcode_9_example_1
AdjustExample == <<109, 19, 99>>

TestRun(values, input, base) ==
    [intcode |-> values, program_input |-> input, relative_base |-> base]

TestRuns ==
    { TestRun(Quine, <<>>, 0),
      TestRun(LargeExample, <<7>>, 0),
      TestRun(LargeExample, <<8>>, 0),
      TestRun(LargeExample, <<11>>, 0),
      TestRun(JumpPosition, <<7>>, 0),
      TestRun(JumpPosition, <<0>>, 0),
      TestRun(Day2Example, <<>>, 0),
      TestRun(AdjustExample, <<>>, 2000) }

TestInit ==
    /\ \E t \in TestRuns :
           /\ intcode = t.intcode
           /\ program_input = t.program_input
           /\ relative_base = t.relative_base
    /\ i = 0
    /\ program_output = <<>>
    /\ ran_to_completion = FALSE
    /\ value = 0
    /\ instruction = NoInstruction
    /\ status = "constructed"
    /\ entry = "none"
    /\ diagnostic = NoDiagnostic
    /\ image = intcode
    /\ aliased = TRUE
    /\ Alone

\* one iteration of run()'s loop, whatever the size of the values
Iterate ==
    /\ InRun
    /\ LET r == RunIteration(VM)
       IN  /\ intcode' = r.vm.intcode
           /\ i' = r.vm.i
           /\ relative_base' = r.vm.relative_base
           /\ program_input' = r.vm.program_input
           /\ program_output' = r.vm.program_output
           /\ ran_to_completion' = r.vm.ran_to_completion
           /\ value' = IF FetchOk(VM) THEN Fetched(VM) ELSE value
           /\ instruction' = IF FetchOk(VM)
                             THEN build_from_instruction_int(Fetched(VM))
                             ELSE instruction
           /\ status' = IF r.outcome = "continue" THEN "running"
                        ELSE IF r.outcome = "return" THEN "returned"
                        ELSE r.outcome
           /\ aliased' = StillAliased(VM, r.vm)
           /\ image' = IF StillAliased(VM, r.vm) THEN r.vm.intcode ELSE image
    /\ UNCHANGED <<entry, diagnostic, others>>

TestNext == Run \/ Iterate

TestSpec == TestInit /\ [][TestNext]_vars

---------------------------------------------------------------------------
(* C12 *)

\* what read_parameter_value returns for the parameter in cell index, in the
\* given mode, on the memory and relative base of the state
ReadAt(index, mode) == read_parameter_value(intcode, relative_base, index, mode)

\* the read returns r in IMMEDIATE mode and the cell at r (POSITION) or at
\* r + relative_base (RELATIVE) when that address is not negative, 0 beyond
\* the length, and whatever it does it changes no existing cell
ReadResolves(index, mode) ==
    LET r       == intcode[index + 1]
        address == IF mode = RELATIVE THEN r + relative_base ELSE r
    IN  /\ mode = IMMEDIATE =>
               /\ ReadAt(index, mode).error = "none"
               /\ ReadAt(index, mode).parameter_value = r
        /\ (mode # IMMEDIATE /\ address >= 0) =>
               /\ ReadAt(index, mode).error = "none"
               /\ ReadAt(index, mode).parameter_value = Cell(intcode, address)
        /\ SameCellsExcept(intcode, ReadAt(index, mode).intcode, {})

\* the memory began as the quine: no instruction of the quine writes below
\* address 100
RunsQuine == Len(intcode) >= Len(Quine) /\ SubSeq(intcode, 1, Len(Quine)) = Quine

\* C12: for a read parameter with raw value r, read_parameter_value returns r
\* in IMMEDIATE mode, memory[r] in POSITION mode and memory[r + relative_base]
\* in RELATIVE mode (0 when that non-negative address is beyond the current
\* length) and changes no existing memory cell; and the quine, run from a
\* fresh VM, raises nothing, never waits for input, and returns halted with an
\* output queue equal to its own image.
C12_ReadOperandResolution ==
    /\ \A index \in 0..(Len(intcode) - 1) : \A mode \in ParameterModes :
           ReadResolves(index, mode)
    /\ RunsQuine =>
           /\ status \notin {"ValueError", "IndexError"}
           /\ status = "returned" => (ran_to_completion /\ program_output = Quine)

\* the quine has halted with its own image in the output queue, after reads
\* in RELATIVE mode and reads beyond the length of the memory
C12_Witness ==
    /\ RunsQuine
    /\ status = "returned"
    /\ ran_to_completion
    /\ program_output = Quine
    /\ Len(intcode) > Len(Quine)

---------------------------------------------------------------------------
(* C13 *)

\* C13: an ADD, MULTIPLY, LESS_THAN or EQUALS at a program counter p >= 0,
\* whose three parameter cells are in the backing store, whose addresses are
\* not negative and whose third parameter is in POSITION or RELATIVE mode,
\* with resolved operands a and b, writes a+b, a*b,
\* (1 if a<b else 0), (1 if a=b else 0) to the resolved write address,
\* changes no other memory cell, leaves the relative base and both queues as
\* they were and moves the program counter to p + 4; LESS_THAN and EQUALS
\* write 0 or 1.
C13_ArithmeticStep ==
    [][ ( /\ InRun
          /\ i >= 0
          /\ i + 3 < Len(intcode)
          /\ LogicalCurrent.error = "none"
          /\ LogicalCurrent.op_code \in ArithmeticOps
          /\ LogicalCurrent.parameter_mode_list[3] \in {POSITION, RELATIVE}
          /\ AddressesLegal ) =>
          LET target == ResolvedAddress(3)
              a      == Operand(1)
              b      == Operand(2)
              op     == LogicalCurrent.op_code
          IN  /\ status' = "running"
              /\ Len(intcode') > target
              /\ intcode'[target + 1] =
                     IF op = ADD THEN a + b
                     ELSE IF op = MULTIPLY THEN a * b
                     ELSE IF op = LESS_THAN THEN (IF a < b THEN 1 ELSE 0)
                     ELSE (IF a = b THEN 1 ELSE 0)
              /\ op \in {LESS_THAN, EQUALS} => intcode'[target + 1] \in {0, 1}
              /\ SameCellsExcept(intcode, intcode', {target})
              /\ i' = i + 4
              /\ UNCHANGED <<relative_base, program_input, program_output>> ]_vars

\* ADD 0 0 0 of the image [1,0,0,0,99] has run: cell 0 holds 1 + 1
C13_Witness ==
    /\ status = "running"
    /\ instruction = MakeInstruction(ADD, <<POSITION, POSITION, POSITION>>)
    /\ intcode = <<2, 0, 0, 0, 99>>
    /\ i = 4

---------------------------------------------------------------------------
(* C14 *)

\* C14: every INPUT instruction (POSITION or RELATIVE write mode, parameter
\* cell in the backing store, address not negative) executed with a non-empty
\* input queue removes exactly the front value of the queue, writes it to the
\* resolved write address and moves the program counter by 2, so that no
\* pushed value is skipped: a value leaves the queue only by being stored.
C14_InputFifo ==
    [][ ( /\ AtInputWritable
          /\ i >= 0
          /\ i + 1 < Len(intcode)
          /\ ResolvedAddress(1) >= 0
          /\ program_input # <<>> ) =>
          /\ status' = "running"
          /\ program_input' = Tail(program_input)
          /\ Len(intcode') > ResolvedAddress(1)
          /\ intcode'[ResolvedAddress(1) + 1] = Head(program_input)
          /\ i' = i + 2 ]_vars

---------------------------------------------------------------------------
(* C15 *)

\* the output queue is the earlier queue with values appended
IsPrefix(s, t) == Len(s) <= Len(t) /\ SubSeq(t, 1, Len(s)) = s

\* C15: every OUTPUT instruction at a program counter p >= 0 whose parameter
\* cell is in the backing store and whose address is not negative appends
\* exactly one value, its resolved operand, to the end of the output queue,
\* leaves the earlier entries, the input queue, the relative base and every
\* existing memory cell as they were, and moves the program counter to p + 2;
\* and no iteration of run() removes or changes an entry of the output queue,
\* so the queue before a run() is a prefix of the queue after it.
C15_OutputAppendOnly ==
    [][ /\ ( /\ AtOp(READ_FROM_ADDRESS)
             /\ i >= 0
             /\ i + 1 < Len(intcode)
             /\ AddressesLegal ) =>
             /\ status' = "running"
             /\ program_output' = Append(program_output, Operand(1))
             /\ SameCellsExcept(intcode, intcode', {})
             /\ i' = i + 2
             /\ UNCHANGED <<program_input, relative_base>>
        /\ InRun => IsPrefix(program_output, program_output') ]_vars

\* OUTPUT 0 of the image [3,0,4,0,99] has appended the value that the INPUT
\* before it stored in cell 0
C15_Witness ==
    /\ status = "running"
    /\ instruction = MakeInstruction(READ_FROM_ADDRESS, <<POSITION>>)
    /\ intcode = <<1, 0, 4, 0, 99>>
    /\ program_output = <<1>>
    /\ i = 4

---------------------------------------------------------------------------
(* C16 *)

\* C16: a JUMP_IF_TRUE (resp. JUMP_IF_FALSE) at a program counter p >= 0 whose
\* two parameter cells are in the backing store and whose addresses are not
\* negative, with resolved operands c and t, sets the program counter to
\* exactly t when c # 0 (resp. c = 0), also when t = p, and to p + 3
\* otherwise; the memory cells, the relative base and both queues stay as
\* they were.
C16_JumpStep ==
    [][ ( /\ InRun
          /\ i >= 0
          /\ i + 2 < Len(intcode)
          /\ LogicalCurrent.error = "none"
          /\ LogicalCurrent.op_code \in {JUMP_IF_TRUE, JUMP_IF_FALSE}
          /\ AddressesLegal ) =>
          LET c     == Operand(1)
              t     == Operand(2)
              taken == IF LogicalCurrent.op_code = JUMP_IF_TRUE THEN c # 0 ELSE c = 0
          IN  /\ status' = "running"
              /\ i' = IF taken THEN t ELSE i + 3
              /\ SameCellsExcept(intcode, intcode', {})
              /\ UNCHANGED <<relative_base, program_input, program_output>> ]_vars

\* the jump 1105,1,0 at index 0 has been taken to its own index
C16_Witness ==
    /\ status = "running"
    /\ instruction = MakeInstruction(JUMP_IF_TRUE, <<IMMEDIATE, IMMEDIATE>>)
    /\ intcode = <<1105, 1, 0>>
    /\ i = 0

---------------------------------------------------------------------------
(* C17 *)

\* C17: an ADJUST_RELATIVE_BASE at a program counter p >= 0 whose parameter
\* cell is in the backing store and whose address is not negative, with
\* resolved operand d, changes the relative base from b to exactly b + d and
\* moves the program counter to p + 2, leaving the existing memory cells and
\* both queues as they were; an iteration of run() on anything else leaves
\* the relative base as it was.
C17_RelativeBaseStep ==
    [][ /\ ( /\ AtOp(ADJUST_RELATIVE_BASE)
             /\ i >= 0
             /\ i + 1 < Len(intcode)
             /\ AddressesLegal ) =>
             /\ status' = "running"
             /\ relative_base' = relative_base + Operand(1)
             /\ i' = i + 2
             /\ SameCellsExcept(intcode, intcode', {})
             /\ UNCHANGED <<program_input, program_output>>
        /\ ~AtOp(ADJUST_RELATIVE_BASE) => relative_base' = relative_base ]_vars

\* 109,5 and then 109,-2 have run: the relative base is 5 + (-2)
C17_Witness ==
    /\ status = "running"
    /\ instruction = MakeInstruction(ADJUST_RELATIVE_BASE, <<IMMEDIATE>>)
    /\ intcode = <<109, 5, 109, -2>>
    /\ i = 4
    /\ relative_base = 3

---------------------------------------------------------------------------
(* IntCodeProgram.diagnostic_code, and the caller that reads it after a    *)
(* run() of a program that outputs a queue of values and halts             *)

\* the outputs before the last one, when only the first of them is checked
NonZeroFirst(outputs) == outputs # <<>> /\ outputs[1] # 0

\* lines 122-123: one of the outputs left in the queue is not zero
NonZeroAmong(outputs) == \E k \in 1..Len(outputs) : outputs[k] # 0

\* a diagnostic_code that leaves its value in the queue
diagnostic_code_peeking(queue) ==
    IF queue = <<>>
    THEN [outcome |-> "IndexError", code |-> 0, program_output |-> queue]
    ELSE IF NonZeroAmong(SubSeq(queue, 1, Len(queue) - 1))
         THEN [outcome |-> "ValueError", code |-> 0, program_output |-> queue]
         ELSE [outcome |-> "returned", code |-> queue[Len(queue)],
               program_output |-> queue]

\* lines 110-126: the value returned or the exception raised, and the queue
\* afterwards; list.pop() of line 121 comes before the check of the rest
diagnostic_code(queue) ==
    IF queue = <<>>
    THEN [outcome |-> "IndexError", code |-> 0, program_output |-> queue]
    ELSE LET popped == SubSeq(queue, 1, Len(queue) - 1)
         IN  IF NonZeroAmong(popped)
             THEN [outcome |-> "ValueError", code |-> 0, program_output |-> popped]
             ELSE [outcome |-> "returned", code |-> queue[Len(queue)],
                   program_output |-> popped]

\* the caller reads program.diagnostic_code, between two calls of run()
DiagnosticCode ==
    /\ ~InRun
    /\ LET r == diagnostic_code(program_output)
       IN  /\ program_output' = r.program_output
           /\ diagnostic' = [outcome |-> r.outcome, code |-> r.code]
    /\ UNCHANGED <<intcode, i, relative_base, program_input, ran_to_completion,
                   value, instruction, status, entry, image, aliased, others>>

MaxDiagLen == 3
MaxDiagVal == 2

\* the queues of values a program leaves behind
DiagQueues == UNION {[1..n -> (0 - 1)..MaxDiagVal] : n \in 0..MaxDiagLen}

\* the program that outputs the values of the queue and halts:
\* 104,q1, 104,q2, ..., 99  (as [104, 1125899906842624, 99] of day_09.py)
OutputProgram(q) ==
    [k \in 1..(2 * Len(q) + 1) |->
        IF k = 2 * Len(q) + 1 THEN FINISHED
        ELSE IF k % 2 = 1 THEN 100 + READ_FROM_ADDRESS
        ELSE q[k \div 2]]

DiagInit ==
    /\ intcode \in {OutputProgram(q) : q \in DiagQueues}
    /\ i = 0
    /\ relative_base = 0
    /\ program_input = <<>>
    /\ program_output = <<>>
    /\ ran_to_completion = FALSE
    /\ value = 0
    /\ instruction = NoInstruction
    /\ status = "constructed"
    /\ entry = "none"
    /\ diagnostic = NoDiagnostic
    /\ image = intcode
    /\ aliased = TRUE
    /\ Alone

DiagNext == Run \/ Iterate \/ DiagnosticCode

DiagSpec == DiagInit /\ [][DiagNext]_vars

\* a step of the caller that is neither a call of run() nor a push of input
DiagnosticAccess == ~InRun /\ status' = status /\ program_input' = program_input

---------------------------------------------------------------------------
(* C18 *)

\* C18: when the output queue is non-empty and every value except the last is
\* 0, diagnostic_code returns the last value and removes exactly that value:
\* the zeros before it stay in the queue, in order.
C18_DiagnosticSuccess ==
    [][ ( /\ DiagnosticAccess
          /\ program_output # <<>>
          /\ \A k \in 1..(Len(program_output) - 1) : program_output[k] = 0 ) =>
          /\ diagnostic' = [outcome |-> "returned",
                            code |-> program_output[Len(program_output)]]
          /\ program_output' = SubSeq(program_output, 1, Len(program_output) - 1) ]_vars

\* the program has output 0, 0, 2 and halted; diagnostic_code has returned 2
\* and the two zeros are left
C18_Witness ==
    /\ intcode = OutputProgram(<<0, 0, 2>>)
    /\ status = "returned"
    /\ ran_to_completion
    /\ diagnostic = [outcome |-> "returned", code |-> 2]
    /\ program_output = <<0, 0>>

---------------------------------------------------------------------------
(* C19 *)

\* C19: when the output queue holds at least two values and one of them other
\* than the last is not 0, diagnostic_code raises an error and returns no
\* value, whatever the last value is.
C19_DiagnosticFailure ==
    [][ ( /\ DiagnosticAccess
          /\ Len(program_output) >= 2
          /\ \E k \in 1..(Len(program_output) - 1) : program_output[k] # 0 ) =>
          diagnostic' = [outcome |-> "ValueError", code |-> 0] ]_vars

\* the program has output 0, 1, 0 and halted; diagnostic_code has raised,
\* although the last value was 0
C19_Witness ==
    /\ intcode = OutputProgram(<<0, 1, 0>>)
    /\ status = "returned"
    /\ ran_to_completion
    /\ diagnostic = [outcome |-> "ValueError", code |-> 0]
    /\ program_output = <<0, 1>>

---------------------------------------------------------------------------
(* C20 *)

\* a second IntCodeProgram constructed from the same list and never run, as
\* its caller sees it: its memory is the caller's list itself (line 102), the
\* rest is what __init__ made (lines 103-108)
OtherInstance ==
    [intcode |-> image, i |-> 0, relative_base |-> 0, program_input |-> <<>>,
     program_output |-> <<>>, ran_to_completion |-> FALSE]

\* C20: a VM exclusively owns its memory: no iteration of run() changes the
\* caller's own image list, nor the memory, program counter, relative base
\* or queues seen through a second instance constructed from the same image.
C20_ExclusiveMemory ==
    [][ InRun => (image' = image /\ OtherInstance' = OtherInstance) ]_vars

---------------------------------------------------------------------------
(* day_2.py: the interpreter of day 2, run_intcode_program, beside the VM  *)
(* on images made of ADD, MULTIPLY and HALT instructions                   *)

\* a day-2 result that multiplies whatever the opcode
Day2ResultMultiplying(opt_code, num0, num1) == num0 * num1

\* day_2.py lines 38-41
Day2Result(opt_code, num0, num1) ==
    IF opt_code = ADD THEN num0 + num1 ELSE num0 * num1

Day2Raise(l, exception) == [l EXCEPT !.status = exception]

\* day_2.py lines 19-48: one iteration of the loop of run_intcode_program
Day2Iteration(l) ==
    LET mem == l.intcode
        p   == l.i
    IN  IF ~IndexOk(mem, p) THEN Day2Raise(l, "IndexError")
        ELSE LET opt_code == GetItem(mem, p)
        IN  IF opt_code \notin {ADD, MULTIPLY, FINISHED} THEN Day2Raise(l, "ValueError")
            ELSE IF opt_code = FINISHED
            THEN [l EXCEPT !.i = p + 1, !.status = "returned"]
            ELSE IF ~IndexOk(mem, p + 1) \/ ~IndexOk(mem, p + 2) \/ ~IndexOk(mem, p + 3)
            THEN Day2Raise(l, "IndexError")
            ELSE LET num0_i   == GetItem(mem, p + 1)
                     num1_i   == GetItem(mem, p + 2)
                     result_i == GetItem(mem, p + 3)
                 IN  IF ~IndexOk(mem, num0_i) \/ ~IndexOk(mem, num1_i)
                        \/ ~IndexOk(mem, result_i)
                     THEN Day2Raise(l, "IndexError")
                     ELSE [l EXCEPT
                             !.intcode = SetItem(mem, result_i,
                                             Day2Result(opt_code, GetItem(mem, num0_i),
                                                        GetItem(mem, num1_i))),
                             !.i = p + 4]

\* the addresses the instructions of the images use: all inside the image
Day2Addresses == {0, 3, 4}

\* ADD or MULTIPLY with a bare opcode and three addresses
Day2Instructions ==
    {<<op, a, b, c>> : op \in {ADD, MULTIPLY},
                       a \in Day2Addresses, b \in Day2Addresses, c \in Day2Addresses}

\* one or two instructions and a HALT, and the example of the day-2 tests
Day2Images ==
    {ins \o <<FINISHED>> : ins \in Day2Instructions}
      \cup {ins1 \o ins2 \o <<FINISHED>> :
                ins1 \in Day2Instructions, ins2 \in Day2Instructions}
      \cup {Day2Example}

\* the VM is constructed from the image, run_intcode_program is called with a
\* copy of it
Day2Init ==
    /\ intcode \in Day2Images
    /\ i = 0
    /\ relative_base = 0
    /\ program_input = <<>>
    /\ program_output = <<>>
    /\ ran_to_completion = FALSE
    /\ value = 0
    /\ instruction = NoInstruction
    /\ status = "constructed"
    /\ entry = "none"
    /\ diagnostic = NoDiagnostic
    /\ image = intcode
    /\ aliased = TRUE
    /\ legacy = [intcode |-> intcode, i |-> 0, status |-> "running"]
    /\ twin = NoTwin /\ clone = NoClone /\ amps = NoAmps

Day2Step ==
    /\ legacy.status = "running"
    /\ legacy' = Day2Iteration(legacy)
    /\ UNCHANGED <<intcode, i, relative_base, program_input, program_output,
                   ran_to_completion, value, instruction, status, entry, diagnostic,
                   image, aliased, twin, clone, amps>>

Day2Next == Run \/ Iterate \/ Day2Step

Day2Spec == Day2Init /\ [][Day2Next]_vars

\* run() has returned or raised
RunEnded == status \in {"returned", "ValueError", "IndexError"}

\* run() has returned with the program halted
Halted == status = "returned" /\ ran_to_completion

---------------------------------------------------------------------------
(* C21 *)

\* C21 as stated: for every image made only of ADD, MULTIPLY and HALT
\* instructions with bare opcodes and addresses inside the image,
\* IntCodeProgram.run halts exactly when run_intcode_program of day 2
\* returns, and then with the same final memory.
C21_LegacyEquivalence ==
    (RunEnded /\ legacy.status # "running") =>
        /\ Halted <=> legacy.status = "returned"
        /\ Halted => intcode = legacy.intcode

\* C21, amended: for every such image on which run_intcode_program of day 2
\* returns, IntCodeProgram.run halts with the same final memory.
C21_LegacyRefinement ==
    (RunEnded /\ legacy.status = "returned") =>
        (Halted /\ intcode = legacy.intcode)

\* both interpreters have ended on the example of the day-2 tests
C21_Witness ==
    /\ Halted
    /\ legacy.status = "returned"
    /\ intcode = <<3500, 9, 10, 70, 2, 3, 11, 0, 99, 30, 40, 50>>
    /\ legacy.intcode = intcode

---------------------------------------------------------------------------
(* Python's int.  run() computes with Python integers, which have no       *)
(* width (lines 204, 206).  Values beyond the integers of the model        *)
(* checker are held as CPython holds them: a sign and a sequence of        *)
(* digits, least significant first, here in base 10000, the most           *)
(* significant digit not 0; zero has sign 0 and no digit.                  *)

Base == 10000

PyInt(sign, digits) == [sign |-> sign, digits |-> digits]

PyZero == PyInt(0, <<>>)

RECURSIVE Trim(_)
\* the digits without zeros at the most significant end
Trim(digits) ==
    IF digits = <<>> THEN <<>>
    ELSE IF digits[Len(digits)] = 0 THEN Trim(SubSeq(digits, 1, Len(digits) - 1))
    ELSE digits

RECURSIVE PlainDigits(_)
\* the digits of an integer n >= 0 of the model checker
PlainDigits(n) == IF n = 0 THEN <<>> ELSE <<n % Base>> \o PlainDigits(n \div Base)

\* the Python int of an integer of the model checker
ToPyInt(n) ==
    IF n = 0 THEN PyZero
    ELSE IF n > 0 THEN PyInt(1, PlainDigits(n))
    ELSE PyInt(0 - 1, PlainDigits(0 - n))

RECURSIVE PlainValue(_)
PlainValue(digits) ==
    IF digits = <<>> THEN 0 ELSE Head(digits) + Base * PlainValue(Tail(digits))

\* a Python int of at most two digits as an integer of the model checker
ToPlain(x) == x.sign * PlainValue(x.digits)

IsPlain(x) == Len(x.digits) <= 2

\* written most significant group of four decimal digits first
Dec(groups) == PyInt(1, [k \in 1..Len(groups) |-> groups[Len(groups) + 1 - k]])

Neg(x) == PyInt(0 - x.sign, x.digits)

RECURSIVE AddDigits(_, _, _)
AddDigits(xs, ys, carry) ==
    IF xs = <<>> /\ ys = <<>>
    THEN (IF carry = 0 THEN <<>> ELSE <<carry>>)
    ELSE LET x == IF xs = <<>> THEN 0 ELSE Head(xs)
             y == IF ys = <<>> THEN 0 ELSE Head(ys)
             s == x + y + carry
         IN  <<s % Base>> \o AddDigits(IF xs = <<>> THEN <<>> ELSE Tail(xs),
                                       IF ys = <<>> THEN <<>> ELSE Tail(ys),
                                       s \div Base)

RECURSIVE SubDigits(_, _, _)
\* xs - ys - borrow, for xs not less than ys
SubDigits(xs, ys, borrow) ==
    IF xs = <<>> THEN <<>>
    ELSE LET y == IF ys = <<>> THEN 0 ELSE Head(ys)
             d == Head(xs) - y - borrow
         IN  <<IF d < 0 THEN d + Base ELSE d>>
                 \o SubDigits(Tail(xs), IF ys = <<>> THEN <<>> ELSE Tail(ys),
                              IF d < 0 THEN 1 ELSE 0)

RECURSIVE LessDigits(_, _)
\* xs < ys, both without leading zeros
LessDigits(xs, ys) ==
    IF Len(xs) # Len(ys) THEN Len(xs) < Len(ys)
    ELSE IF xs = <<>> THEN FALSE
    ELSE IF xs[Len(xs)] # ys[Len(ys)] THEN xs[Len(xs)] < ys[Len(ys)]
    ELSE LessDigits(SubSeq(xs, 1, Len(xs) - 1), SubSeq(ys, 1, Len(ys) - 1))

RECURSIVE ScaleDigits(_, _, _)
\* xs * d + carry, for one digit d
ScaleDigits(xs, d, carry) ==
    IF xs = <<>> THEN (IF carry = 0 THEN <<>> ELSE <<carry>>)
    ELSE LET s == Head(xs) * d + carry
         IN  <<s % Base>> \o ScaleDigits(Tail(xs), d, s \div Base)

RECURSIVE MulDigits(_, _)
MulDigits(xs, ys) ==
    IF ys = <<>> THEN <<>>
    ELSE AddDigits(ScaleDigits(xs, Head(ys), 0), <<0>> \o MulDigits(xs, Tail(ys)), 0)

\* num0 + num1 of line 204
PyAdd(a, b) ==
    IF a.sign = 0 THEN b
    ELSE IF b.sign = 0 THEN a
    ELSE IF a.sign = b.sign THEN PyInt(a.sign, AddDigits(a.digits, b.digits, 0))
    ELSE IF a.digits = b.digits THEN PyZero
    ELSE IF LessDigits(a.digits, b.digits)
         THEN PyInt(b.sign, Trim(SubDigits(b.digits, a.digits, 0)))
         ELSE PyInt(a.sign, Trim(SubDigits(a.digits, b.digits, 0)))

\* a product kept to sixteen decimal digits
PyMulFixedWidth(a, b) ==
    IF a.sign = 0 \/ b.sign = 0 THEN PyZero
    ELSE LET product == MulDigits(a.digits, b.digits)
             kept == Trim(SubSeq(product, 1, IF Len(product) < 4 THEN Len(product) ELSE 4))
         IN  IF kept = <<>> THEN PyZero ELSE PyInt(a.sign * b.sign, kept)

\* num0 * num1 of line 206
PyMul(a, b) ==
    IF a.sign = 0 \/ b.sign = 0 THEN PyZero
    ELSE PyInt(a.sign * b.sign, Trim(MulDigits(a.digits, b.digits)))

---------------------------------------------------------------------------
(* run() over Python ints of any size: the iteration of lines 175-293 for  *)
(* the instructions FINISHED, ADD, MULTIPLY and OUTPUT, every memory cell  *)
(* and every output a Python int as above.  An instruction word and an     *)
(* address are read as integers of the model checker; the outcome is       *)
(* "beyond" where they do not fit or where the opcode is another one.      *)

\* lines 162-168, the cells added hold the Python int 0
wide_extend_memory(mem, index) ==
    LET indices_to_add == index + 1 - Len(mem)
    IN  IF indices_to_add > 0
        THEN mem \o [k \in 1..indices_to_add |-> PyZero]
        ELSE mem

\* lines 128-154
wide_read_parameter_value(mem, rb, index, mode) ==
    IF ~IndexOk(mem, index)
    THEN [error |-> "IndexError", intcode |-> mem, parameter_value |-> PyZero]
    ELSE LET parameter == GetItem(mem, index)
         IN  IF mode = IMMEDIATE
             THEN [error |-> "none", intcode |-> mem, parameter_value |-> parameter]
             ELSE IF ~IsPlain(parameter)
             THEN [error |-> "beyond", intcode |-> mem, parameter_value |-> PyZero]
             ELSE IF mode \in {POSITION, RELATIVE}
             THEN LET idx == parameter_value_index(ToPlain(parameter), mode, rb)
                      mem2 == wide_extend_memory(mem, idx)
                  IN  IF IndexOk(mem2, idx)
                      THEN [error |-> "none", intcode |-> mem2,
                            parameter_value |-> GetItem(mem2, idx)]
                      ELSE [error |-> "IndexError", intcode |-> mem2,
                            parameter_value |-> PyZero]
             ELSE [error |-> "ValueError", intcode |-> mem, parameter_value |-> PyZero]

\* lines 203-206
WideCompute(op, num0, num1) == IF op = ADD THEN PyAdd(num0, num1) ELSE PyMul(num0, num1)

\* lines 197-226, ADD and MULTIPLY
WideExecArithmetic(vm, ins) ==
    LET p == vm.i + 1
        rb == vm.relative_base
        modes == ins.parameter_mode_list
        r0 == wide_read_parameter_value(vm.intcode, rb, p, modes[1])
    IN  IF r0.error # "none" THEN Raise(vm, r0.intcode, r0.error)
        ELSE
        LET r1 == wide_read_parameter_value(r0.intcode, rb, p + 1, modes[2])
        IN  IF r1.error # "none" THEN Raise(vm, r1.intcode, r1.error)
            ELSE
            LET result == WideCompute(ins.op_code, r0.parameter_value, r1.parameter_value)
                mem == r1.intcode
                result_mode == modes[3]
            IN  IF result_mode \notin {POSITION, RELATIVE}
                THEN Raise(vm, mem, "ValueError")
                ELSE IF ~IndexOk(mem, p + 2) THEN Raise(vm, mem, "IndexError")
                ELSE IF ~IsPlain(GetItem(mem, p + 2)) THEN Raise(vm, mem, "beyond")
                ELSE
                LET address == IF result_mode = POSITION
                               THEN ToPlain(GetItem(mem, p + 2))
                               ELSE ToPlain(GetItem(mem, p + 2)) + rb
                    mem2 == wide_extend_memory(mem, address)
                IN  IF ~IndexOk(mem2, address) THEN Raise(vm, mem2, "IndexError")
                    ELSE Outcome([vm EXCEPT !.intcode = SetItem(mem2, address, result)],
                                 "continue", TRUE)

\* an OUTPUT that emits its value less one
WideExecReadOffByOne(vm, ins) ==
    LET r == wide_read_parameter_value(vm.intcode, vm.relative_base, vm.i + 1,
                                       ins.parameter_mode_list[1])
    IN  IF r.error # "none" THEN Raise(vm, r.intcode, r.error)
        ELSE Outcome([vm EXCEPT !.intcode = r.intcode,
                                !.program_output =
                                    Append(vm.program_output,
                                           PyAdd(r.parameter_value, ToPyInt(0 - 1)))],
                     "continue", TRUE)

\* lines 258-262
WideExecRead(vm, ins) ==
    LET r == wide_read_parameter_value(vm.intcode, vm.relative_base, vm.i + 1,
                                       ins.parameter_mode_list[1])
    IN  IF r.error # "none" THEN Raise(vm, r.intcode, r.error)
        ELSE Outcome([vm EXCEPT !.intcode = r.intcode,
                                !.program_output = Append(vm.program_output,
                                                          r.parameter_value)],
                     "continue", TRUE)

\* line 175
WideFetchOk(vm) == IndexOk(vm.intcode, vm.i) /\ IsPlain(GetItem(vm.intcode, vm.i))

WideFetched(vm) == ToPlain(GetItem(vm.intcode, vm.i))

\* lines 175-293
WideIteration(vm) ==
    IF ~IndexOk(vm.intcode, vm.i) THEN Outcome(vm, "IndexError", FALSE)
    ELSE IF ~WideFetchOk(vm) THEN Outcome(vm, "beyond", FALSE)
    ELSE LET ins == build_from_instruction_int(WideFetched(vm))
         IN  IF ins.error # "none" THEN DecodeFailed(vm)
             ELSE IF ins.op_code = FINISHED THEN ExecFinished(vm)
             ELSE IF ins.op_code \in {ADD, MULTIPLY}
                  THEN IncrementPc(WideExecArithmetic(vm, ins), ins.op_code)
             ELSE IF ins.op_code = READ_FROM_ADDRESS
                  THEN IncrementPc(WideExecRead(vm, ins), ins.op_code)
             ELSE Outcome(vm, "beyond", FALSE)

\* the memory of Python ints of an image of integers
Wide(values) == [k \in 1..Len(values) |-> ToPyInt(values[k])]

\* operands around the widths 16, 32 and 64 bits
WideOperands ==
    { PyZero, ToPyInt(1), ToPyInt(0 - 1), ToPyInt(65536), ToPyInt(34915192),
      ToPyInt(2147483647),                         \* 2^31 - 1
      Neg(Dec(<<21, 4748, 3648>>)),                \* -2^31
      Dec(<<42, 9496, 7296>>),                     \* 2^32
      Dec(<<1125, 8999, 684, 2624>>),              \* 2^50
      Dec(<<922, 3372, 368, 5477, 5807>>),         \* 2^63 - 1
      Neg(Dec(<<922, 3372, 368, 5477, 5808>>)),    \* -2^63
      Dec(<<1844, 6744, 737, 955, 1616>>) }        \* 2^64

\* day_09.py, test_part_1_example_2
LargeProduct == <<1102, 34915192, 34915192, 7, 4, 7, 99, 0>>

\* day_09.py, test_part_1_example_3: [104, 1125899906842624, 99]
LargeOutput == Wide(<<104>>) \o <<Dec(<<1125, 8999, 684, 2624>>)>> \o Wide(<<99>>)

\* the images of those two tests; the first one with ADD or MULTIPLY, with
\* immediate operands or operands in cells 8 and 9; the second one with any
\* operand
WideImages ==
    { Wide(<<op>>) \o <<a, b>> \o Wide(<<7, 4, 7, 99, 0>>) :
          op \in {1101, 1102}, a \in WideOperands, b \in WideOperands }
    \cup { Wide(<<op, 8, 9, 7, 4, 7, 99, 0>>) \o <<a, b>> :
          op \in {ADD, MULTIPLY}, a \in WideOperands, b \in WideOperands }
    \cup { Wide(<<104>>) \o <<a>> \o Wide(<<99>>) : a \in WideOperands }

WideInit ==
    /\ intcode \in WideImages
    /\ i = 0
    /\ relative_base = 0
    /\ program_input = <<>>
    /\ program_output = <<>>
    /\ ran_to_completion = FALSE
    /\ value = 0
    /\ instruction = NoInstruction
    /\ status = "constructed"
    /\ entry = "none"
    /\ diagnostic = NoDiagnostic
    /\ image = intcode
    /\ aliased = TRUE
    /\ Alone

\* one iteration of run()'s loop over Python ints
WideIterate ==
    /\ InRun
    /\ LET r == WideIteration(VM)
       IN  /\ intcode' = r.vm.intcode
           /\ i' = r.vm.i
           /\ relative_base' = r.vm.relative_base
           /\ program_input' = r.vm.program_input
           /\ program_output' = r.vm.program_output
           /\ ran_to_completion' = r.vm.ran_to_completion
           /\ value' = IF WideFetchOk(VM) THEN WideFetched(VM) ELSE value
           /\ instruction' = IF WideFetchOk(VM)
                             THEN build_from_instruction_int(WideFetched(VM))
                             ELSE instruction
           /\ status' = IF r.outcome = "continue" THEN "running"
                        ELSE IF r.outcome = "return" THEN "returned"
                        ELSE r.outcome
           /\ aliased' = StillAliased(VM, r.vm)
           /\ image' = IF StillAliased(VM, r.vm) THEN r.vm.intcode ELSE image
    /\ UNCHANGED <<entry, diagnostic, others>>

WideNext == Run \/ WideIterate

WideSpec == WideInit /\ [][WideNext]_vars

---------------------------------------------------------------------------
(* C22 *)

\* A Python int in its one representation
WellFormedInt(x) ==
    /\ x.sign \in {0 - 1, 0, 1}
    /\ x.sign = 0 <=> x.digits = <<>>
    /\ \A k \in 1..Len(x.digits) : x.digits[k] \in 0..(Base - 1)
    /\ x.digits # <<>> => x.digits[Len(x.digits)] # 0

\* Ten primes, their product above 10^46: two integers below 10^40 in
\* absolute value that leave the same remainders are equal
Moduli == {46337, 46327, 46309, 46307, 46301, 46279, 46273, 46271, 46261, 46237}

RECURSIVE DigitsMod(_, _)
DigitsMod(digits, m) ==
    IF digits = <<>> THEN 0 ELSE (Head(digits) + Base * DigitsMod(Tail(digits), m)) % m

\* the remainder of x modulo m
Residue(x, m) ==
    IF x.sign < 0 THEN (m - DigitsMod(x.digits, m)) % m ELSE DigitsMod(x.digits, m)

LongerOf(a, b) == IF Len(a.digits) > Len(b.digits) THEN Len(a.digits) ELSE Len(b.digits)

\* r is the sum of a and b, each of at most five digits in base 10000
IsSum(a, b, r) ==
    /\ WellFormedInt(r)
    /\ Len(r.digits) <= LongerOf(a, b) + 1
    /\ \A m \in Moduli : Residue(r, m) = (Residue(a, m) + Residue(b, m)) % m

\* r is the product of a and b, each of at most five digits in base 10000
IsProduct(a, b, r) ==
    /\ WellFormedInt(r)
    /\ Len(r.digits) <= Len(a.digits) + Len(b.digits)
    /\ \A m \in Moduli : Residue(r, m) = (Residue(a, m) * Residue(b, m)) % m

\* the instruction a run over Python ints decodes next
WideCurrent == build_from_instruction_int(WideFetched(VM))

\* its value parameter k (k = 1, 2), resolved
WideOperand(k) ==
    IF WideCurrent.parameter_mode_list[k] = IMMEDIATE
    THEN intcode[i + k + 1]
    ELSE intcode[ToPlain(intcode[i + k + 1]) + 1]

\* the number of decimal digits of x
RECURSIVE DecimalLen(_)
DecimalLen(n) == IF n < 10 THEN 1 ELSE 1 + DecimalLen(n \div 10)

DecimalDigits(x) == 4 * (Len(x.digits) - 1) + DecimalLen(x.digits[Len(x.digits)])

\* C22: ADD and MULTIPLY store the exact sum and the exact product of their
\* operands, whatever their size (no wrap-around at 32 or 64 bits), and OUTPUT
\* appends its operand unchanged; the run of
\* [1102,34915192,34915192,7,4,7,99,0] ends with the one output
\* 1219070632396864 and the run of [104,1125899906842624,99] with the one
\* output 1125899906842624.
C22_ExactArithmetic ==
    [][ /\ ( /\ InRun
             /\ WideFetchOk(VM)
             /\ WideCurrent.error = "none"
             /\ WideCurrent.op_code \in {ADD, MULTIPLY} ) =>
             LET a == WideOperand(1)
                 b == WideOperand(2)
                 target == ToPlain(intcode[i + 4])
             IN  /\ status' = "running"
                 /\ WideCurrent.op_code = ADD => IsSum(a, b, intcode'[target + 1])
                 /\ WideCurrent.op_code = MULTIPLY => IsProduct(a, b, intcode'[target + 1])
                 /\ program_output' = program_output
        /\ ( /\ InRun
             /\ WideFetchOk(VM)
             /\ WideCurrent.error = "none"
             /\ WideCurrent.op_code = READ_FROM_ADDRESS ) =>
             /\ status' = "running"
             /\ program_output' = Append(program_output, WideOperand(1))
             /\ intcode' = intcode
        /\ ( /\ status' = "returned"
             /\ Len(intcode') = Len(LargeProduct)
             /\ SubSeq(intcode', 1, 7) = Wide(SubSeq(LargeProduct, 1, 7)) ) =>
             program_output' = <<Dec(<<1219, 706, 3239, 6864>>)>>
        /\ ( status' = "returned" /\ intcode' = LargeOutput ) =>
             program_output' = <<Dec(<<1125, 8999, 684, 2624>>)>> ]_vars

\* the run of [1102,34915192,34915192,7,4,7,99,0] has halted: its one output
\* is the product in cell 7, 1219070632396864, of 16 digits
C22_Witness ==
    /\ status = "returned"
    /\ ran_to_completion
    /\ intcode = Wide(SubSeq(LargeProduct, 1, 7)) \o <<Dec(<<1219, 706, 3239, 6864>>)>>
    /\ program_output = <<intcode[8]>>
    /\ DecimalDigits(intcode[8]) = 16

---------------------------------------------------------------------------
(* C23 *)

\* C23: the program counter is >= 0 in every reachable state, in particular
\* after a taken jump, so that no instruction word is fetched from a negative
\* index.
C23_PcNonNegative == i >= 0

---------------------------------------------------------------------------
(* C24 *)

\* extend_memory(index) on the memory mem: the length is max(old length,
\* index + 1), the cells below the old length keep their values, the new
\* cells hold 0
ExtendsOnly(mem, index) ==
    LET after == extend_memory(mem, index)
    IN  /\ Len(after) = (IF index + 1 > Len(mem) THEN index + 1 ELSE Len(mem))
        /\ \A k \in 1..Len(mem) : after[k] = mem[k]
        /\ \A k \in (Len(mem) + 1)..Len(after) : after[k] = 0

\* the address the instruction about to run writes to, -1 when it writes none
WrittenAddress ==
    IF AtWrite THEN ResolvedAddress(WriteParam) ELSE 0 - 1

\* the cells an iteration changes: those that hold another value than before
\* and the new ones that hold another value than 0
ChangedCells ==
    {k \in 0..(Len(intcode') - 1) :
         IF k < Len(intcode) THEN intcode'[k + 1] # intcode[k + 1]
                             ELSE intcode'[k + 1] # 0}

\* C24: extend_memory(index) with index >= 0, for every address the
\* instruction about to run resolves, never shortens the memory and never
\* changes a cell: the length becomes max(old length, index + 1), old cells
\* keep their values, new cells are 0.  Hence an iteration of run()
\* never shortens the memory, and a cell changes its value, or appears with a
\* value other than 0, only in the iteration of an instruction that writes
\* (ADD, MULTIPLY, LESS_THAN, EQUALS, INPUT), one cell at most, and (program
\* counter and addresses >= 0) the cell at the address the instruction
\* writes to.
C24_MemoryMonotone ==
    [][ /\ Len(intcode') >= Len(intcode)
        /\ ~InRun => intcode' = intcode
        /\ InRun =>
               /\ \A k \in AddressParams :
                      ResolvedAddress(k) >= 0 => ExtendsOnly(intcode, ResolvedAddress(k))
               /\ (intcode' # intcode /\ ChangedCells # {}) =>
                      /\ AtWrite
                      /\ Cardinality(ChangedCells) = 1
                      /\ AddressesLegal => ChangedCells = {WrittenAddress} ]_vars

\* run() has extended the memory beyond the caller's list and written a
\* value other than 0 into one of the new cells, the old cells as they were
C24_Witness ==
    /\ ~aliased
    /\ Len(intcode) > Len(image)
    /\ SubSeq(intcode, 1, Len(image)) = image
    /\ \E k \in (Len(image) + 1)..Len(intcode) : intcode[k] # 0

---------------------------------------------------------------------------
(* C27 *)

\* the instruction the cell at the program counter decodes to, once the
\* iteration has run
DecodedAfter == build_from_instruction_int(GetItem(intcode', i'))

---------------------------------------------------------------------------
(* C29 *)

\* C29: when diagnostic_code raises because an output other than the last
\* is not 0, the output queue afterwards is the queue before the access, the
\* last value still in it.
C29_DiagnosticFailureKeepsQueue ==
    [][ ( /\ DiagnosticAccess
          /\ Len(program_output) >= 2
          /\ \E k \in 1..(Len(program_output) - 1) : program_output[k] # 0
          /\ diagnostic' = [outcome |-> "ValueError", code |-> 0] ) =>
          program_output' = program_output ]_vars

---------------------------------------------------------------------------
(* run() at a negative cell: the images [v,0,0,0], where the first fetch   *)
(* finds v, and [1101,1,1,0,v,0,0,0], where the second one does, for every *)
(* raw value v of the range below 0                                        *)

NegativeImages ==
    { <<v, 0, 0, 0>> : v \in (0 - MaxRaw)..(0 - 1) }
    \cup { <<1101, 1, 1, 0, v, 0, 0, 0>> : v \in (0 - MaxRaw)..(0 - 1) }

NegativeInit ==
    /\ intcode \in NegativeImages
    /\ i = 0
    /\ relative_base = 0
    /\ program_input = <<>>
    /\ program_output = <<>>
    /\ ran_to_completion = FALSE
    /\ value = 0
    /\ instruction = NoInstruction
    /\ status = "constructed"
    /\ entry = "none"
    /\ diagnostic = NoDiagnostic
    /\ image = intcode
    /\ aliased = TRUE
    /\ Alone

NegativeNext == Run \/ Iterate

NegativeSpec == NegativeInit /\ [][NegativeNext]_vars

---------------------------------------------------------------------------
(* C30 *)

\* C30: build_from_instruction_int raises an error for every raw value below
\* 0, whatever its last two digits: when the program counter reaches a cell
\* that holds such a value, run() raises and executes nothing, memory, program
\* counter, relative base, both queues and ran_to_completion as they were.
C30_NegativeNeverDecodes ==
    [][ (InRun /\ FetchOk(VM) /\ Fetched(VM) < 0) =>
            /\ build_from_instruction_int(Fetched(VM)).error # "none"
            /\ instruction' = DecodeError
            /\ status' = "ValueError"
            /\ UNCHANGED <<intcode, i, relative_base, program_input, program_output,
                           ran_to_completion>> ]_vars

\* run() has raised at cell 4 of [2,1,1,0,-1101,0,0,0], the ADD before it
\* done: -1101 ends in the digits of ADD and is no instruction
C30_Witness ==
    /\ status = "ValueError"
    /\ intcode = <<2, 1, 1, 0, 0 - 1101, 0, 0, 0>>
    /\ i = 4
    /\ value = 0 - 1101
    /\ instruction = DecodeError

---------------------------------------------------------------------------
(* Two VMs of one image and one sequence of input values.  The VM of the   *)
(* variables above is given the whole sequence before its one call of      *)
(* run().  The second VM, on a list of its own, is given the values one at *)
(* a time: its caller calls run(), with or without a first value pushed,   *)
(* and after each return with ran_to_completion = False pushes the next    *)
(* value and calls run() again.  The two VMs share nothing: the second one *)
(* is followed once the first one has ended.                               *)

\* the variables of the VM and its caller
own == <<intcode, i, relative_base, program_input, program_output, ran_to_completion,
         value, instruction, status, entry, diagnostic, image, aliased>>

\* day_07.py, test_part_1_example_1: takes two values, outputs one, halts
AmplifierExample == <<3, 15, 3, 16, 1002, 16, 10, 16, 1, 16, 15, 15, 4, 15, 99, 0, 0>>

ScheduleImages == Images \cup {AmplifierExample}

ScheduleInputs == UNION {[1..n -> InputValues] : n \in 0..MaxInput}

ScheduleInit ==
    /\ intcode \in ScheduleImages
    /\ i = 0
    /\ relative_base = 0
    /\ program_input \in ScheduleInputs
    /\ program_output = <<>>
    /\ ran_to_completion = FALSE
    /\ value = 0
    /\ instruction = NoInstruction
    /\ status = "constructed"
    /\ entry = "none"
    /\ diagnostic = NoDiagnostic
    /\ image = intcode
    /\ aliased = TRUE
    /\ legacy = NoLegacy
    /\ twin = [vm |-> [intcode |-> intcode, i |-> 0, relative_base |-> 0,
                       program_input |-> <<>>, program_output |-> <<>>,
                       ran_to_completion |-> FALSE],
               status |-> "constructed",
               pending |-> program_input]
    /\ clone = NoClone
    /\ amps = NoAmps

\* the one call of run() of the first VM
RunOnce == status = "constructed" /\ Run

TwinSuspended == twin.status = "returned" /\ ~twin.vm.ran_to_completion

\* the caller of the second VM calls run()
TwinRun ==
    /\ RunEnded
    /\ \/ /\ twin.status = "constructed"
          /\ twin' = [twin EXCEPT !.status = "entered"]
       \/ /\ twin.status = "constructed" \/ TwinSuspended
          /\ twin.pending # <<>>
          /\ twin' = [twin EXCEPT !.vm.program_input = Append(@, Head(twin.pending)),
                                  !.pending = Tail(@),
                                  !.status = "entered"]
    /\ UNCHANGED <<own, legacy, clone, amps>>

\* one iteration of run()'s loop in the second VM
TwinStep ==
    /\ twin.status \in {"entered", "running"}
    /\ LET r == RunIteration(twin.vm)
       IN  /\ WithinBounds(twin.vm, r.vm)
           /\ twin' = [twin EXCEPT !.vm = r.vm,
                                   !.status = IF r.outcome = "continue" THEN "running"
                                              ELSE IF r.outcome = "return" THEN "returned"
                                              ELSE r.outcome]
    /\ UNCHANGED <<own, legacy, clone, amps>>

ScheduleNext == RunOnce \/ Step \/ TwinRun \/ TwinStep

ScheduleSpec == ScheduleInit /\ [][ScheduleNext]_vars

\* the second VM has raised, halted, or been given every value and returned
TwinEnded ==
    \/ twin.status \in {"ValueError", "IndexError"}
    \/ twin.status = "returned" /\ (twin.vm.ran_to_completion \/ twin.pending = <<>>)

---------------------------------------------------------------------------
(* C28 *)

---------------------------------------------------------------------------
(* day_15.py: a droid and the clone DroidDispatcher.run makes of it.  The  *)
(* droid's program is the VM of the variables above, in any state its      *)
(* caller has brought it to.  A Droid refers to its IntCodeProgram, and    *)
(* the IntCodeProgram to its lists: the clone records which program it     *)
(* refers to, the droid's ("parent") or one of its own ("copy", the VM     *)
(* then in the field vm).  DroidDispatcher.run does nothing with the droid *)
(* once it has cloned it, but clone it again for the next direction.       *)

MovementCommand == 1..4

\* a clone that shares the droid's program
copy_shallow(vm) == [program |-> "parent", vm |-> vm, status |-> "copied"]

\* line 120: copy.deepcopy(droid) copies the program and its lists
deepcopy(vm) == [program |-> "copy", vm |-> vm, status |-> "copied"]

\* the program the clone refers to
CloneProgram == IF clone.program = "copy" THEN clone.vm ELSE VM

\* that program becomes vm2, the clone's call of run() is at status s
CloneProgramBecomes(vm2, s) ==
    IF clone.program = "copy"
    THEN /\ clone' = [clone EXCEPT !.vm = vm2, !.status = s]
         /\ UNCHANGED own
    ELSE /\ clone' = [clone EXCEPT !.status = s]
         /\ intcode' = vm2.intcode
         /\ i' = vm2.i
         /\ relative_base' = vm2.relative_base
         /\ program_input' = vm2.program_input
         /\ program_output' = vm2.program_output
         /\ ran_to_completion' = vm2.ran_to_completion
         /\ aliased' = StillAliased(VM, vm2)
         /\ image' = IF StillAliased(VM, vm2) THEN vm2.intcode ELSE image
         /\ UNCHANGED <<value, instruction, status, entry, diagnostic>>

\* the images a droid is built from: every instruction form, the images of
\* the tests, and every form behind an INPUT that takes the movement command
DroidImages ==
    Forms \cup Fixtures \cup {a \o b : a \in {<<3, 0>>, <<3, 5>>, <<203, 3>>}, b \in Forms}

\* Droid.__init__, lines 67-71
CloneInit ==
    /\ intcode \in DroidImages
    /\ i = 0
    /\ relative_base = 0
    /\ program_input = <<>>
    /\ program_output = <<>>
    /\ ran_to_completion = FALSE
    /\ value = 0
    /\ instruction = NoInstruction
    /\ status = "constructed"
    /\ entry = "none"
    /\ diagnostic = NoDiagnostic
    /\ image = intcode
    /\ aliased = TRUE
    /\ Alone

\* the droid's caller, before DroidDispatcher.run clones the droid
DroidPushInput == clone = NoClone /\ PushInput

DroidRun == clone = NoClone /\ Run

DroidStep == clone = NoClone /\ Step

\* line 120: clone = copy.deepcopy(droid), for the first or the next direction
Deepcopy ==
    /\ ~InRun
    /\ clone = NoClone \/ clone.status \in {"returned", "ValueError", "IndexError"}
    /\ clone' = deepcopy(VM)
    /\ UNCHANGED <<own, legacy, twin, amps>>

\* lines 73-76: clone.move(move_command) up to the call of run()
CloneMove ==
    /\ clone # NoClone
    /\ clone.status = "copied"
    /\ \E move_command \in MovementCommand :
           CloneProgramBecomes(
               [CloneProgram EXCEPT !.program_input = Append(@, move_command)],
               "entered")
    /\ UNCHANGED <<legacy, twin, amps>>

\* line 76: one iteration of run()'s loop in the clone's program
CloneStep ==
    /\ clone # NoClone
    /\ clone.status \in {"entered", "running"}
    /\ LET r == RunIteration(CloneProgram)
       IN  /\ WithinBounds(CloneProgram, r.vm)
           /\ CloneProgramBecomes(r.vm, IF r.outcome = "continue" THEN "running"
                                        ELSE IF r.outcome = "return" THEN "returned"
                                        ELSE r.outcome)
    /\ UNCHANGED <<legacy, twin, amps>>

CloneNext == DroidPushInput \/ DroidRun \/ DroidStep \/ Deepcopy \/ CloneMove \/ CloneStep

CloneSpec == CloneInit /\ [][CloneNext]_vars

---------------------------------------------------------------------------
(* C26 *)

\* C26: copying the droid and moving the clone (a movement command pushed,
\* the clone's VM run) never changes the VM of the droid: memory, program
\* counter, relative base, input queue and output queue stay as they were,
\* and so does the list the droid was built from.
C26_CloneIndependence ==
    [][ (clone # NoClone \/ clone' # NoClone) =>
            UNCHANGED <<intcode, i, relative_base, program_input, program_output,
                        ran_to_completion, image>> ]_vars

\* the droid of [3,0,4,0,99] has not moved; its clone has moved EAST (4), its
\* VM has written 4 into its own cell 0, output it and halted
C26_Witness ==
    /\ intcode = <<3, 0, 4, 0, 99>>
    /\ image = intcode
    /\ status = "constructed"
    /\ program_input = <<>>
    /\ program_output = <<>>
    /\ clone # NoClone
    /\ clone.status = "returned"
    /\ clone.vm.intcode = <<4, 0, 4, 0, 99>>
    /\ clone.vm.program_output = <<4>>
    /\ clone.vm.ran_to_completion

---------------------------------------------------------------------------
(* day_07.py: AmplificationProgram.run.  amps holds its locals: the        *)
(* program_list of VMs, the signal_amplitude, the index of the program the *)
(* for loop is at, and where the loop is: "send" before line 42, "running" *)
(* inside program.run(), "collect" before line 44, "returned" or the       *)
(* exception raised.  It also keeps, for every program, the values it has  *)
(* consumed and the values it has output, and the order of the calls of    *)
(* run().  The VM of the variables above stands for the software list and  *)
(* is never run: every amplifier has a copy.copy of it.                    *)

\* day_07.py, test_part_2_example_1
FeedbackExample ==
    <<3, 26, 1001, 26, -4, 26, 3, 27, 1002, 27, 2, 27, 1, 27, 26, 27, 4, 27, 1001, 28,
      -1, 28, 1005, 28, 6, 99, 0, 0, 5>>

\* the lists of distinct phase settings of a set
PhaseLists(phases) ==
    {l \in UNION {[1..n -> phases] : n \in 1..Cardinality(phases)} :
         \A a \in DOMAIN l : \A b \in DOMAIN l : a # b => l[a] # l[b]}

\* the AmplificationProgram objects: the software of a test and a list of
\* phase settings, 0..4 without feedback and 5..9 with it
AmplificationPrograms ==
    { [amp_ctrl_software |-> AmplifierExample, amp_phase_list |-> l] :
          l \in PhaseLists(0..4) }
    \cup { [amp_ctrl_software |-> FeedbackExample, amp_phase_list |-> l] :
          l \in PhaseLists(5..9) }

\* an amplifier that is not given its phase setting
amplifier_without_phase(amp_ctrl_software, amp_phase) ==
    [intcode |-> amp_ctrl_software, i |-> 0, relative_base |-> 0,
     program_input |-> <<>>, program_output |-> <<>>,
     ran_to_completion |-> FALSE]

\* lines 34-35: a VM on a copy of the software, its input queue [amp_phase]
amplifier(amp_ctrl_software, amp_phase) ==
    [intcode |-> amp_ctrl_software, i |-> 0, relative_base |-> 0,
     program_input |-> <<amp_phase>>, program_output |-> <<>>,
     ran_to_completion |-> FALSE]

\* lines 32-39: the locals when the while loop is entered
AmpsEntered(p) ==
    [amp_phase_list |-> p.amp_phase_list,
     program_list |-> [k \in 1..Len(p.amp_phase_list) |->
                          amplifier(p.amp_ctrl_software, p.amp_phase_list[k])],
     signal_amplitude |-> 0,
     index |-> 1,
     status |-> "send",
     order |-> <<>>,
     consumed |-> [k \in 1..Len(p.amp_phase_list) |-> <<>>],
     emitted |-> [k \in 1..Len(p.amp_phase_list) |-> <<>>]]

AmpInit ==
    /\ \E p \in AmplificationPrograms :
           /\ intcode = p.amp_ctrl_software
           /\ amps = AmpsEntered(p)
    /\ i = 0
    /\ relative_base = 0
    /\ program_input = <<>>
    /\ program_output = <<>>
    /\ ran_to_completion = FALSE
    /\ value = 0
    /\ instruction = NoInstruction
    /\ status = "constructed"
    /\ entry = "none"
    /\ diagnostic = NoDiagnostic
    /\ image = intcode
    /\ aliased = TRUE
    /\ legacy = NoLegacy
    /\ twin = NoTwin
    /\ clone = NoClone

\* lines 42-43: the signal is appended to the program's input, run() is called
AmpSend ==
    /\ amps.status = "send"
    /\ amps' = [amps EXCEPT
                   !.program_list[amps.index].program_input =
                       Append(@, amps.signal_amplitude),
                   !.order = Append(@, amps.index),
                   !.status = "running"]
    /\ UNCHANGED <<own, legacy, twin, clone>>

\* line 43: one iteration of run()'s loop in the program
AmpStep ==
    /\ amps.status = "running"
    /\ LET k == amps.index
           before == amps.program_list[k]
           r == RunIteration(before)
           takes == Len(r.vm.program_input) < Len(before.program_input)
           gives == Len(r.vm.program_output) > Len(before.program_output)
       IN  amps' = [amps EXCEPT
                       !.program_list[k] = r.vm,
                       !.consumed[k] = IF takes THEN Append(@, Head(before.program_input))
                                       ELSE @,
                       !.emitted[k] = IF gives
                                      THEN Append(@, r.vm.program_output[
                                                         Len(r.vm.program_output)])
                                      ELSE @,
                       !.status = IF r.outcome = "continue" THEN "running"
                                  ELSE IF r.outcome = "return" THEN "collect"
                                  ELSE r.outcome]
    /\ UNCHANGED <<own, legacy, twin, clone>>

\* line 47
all_programs_finished(program_list) ==
    \A k \in 1..Len(program_list) : program_list[k].ran_to_completion

\* lines 44-48: signal_amplitude = program.diagnostic_code, then the next
\* program, the next round or the return
AmpCollect ==
    /\ amps.status = "collect"
    /\ LET k == amps.index
           d == diagnostic_code(amps.program_list[k].program_output)
           list == [amps.program_list EXCEPT ![k].program_output = d.program_output]
       IN  IF d.outcome # "returned"
           THEN amps' = [amps EXCEPT !.program_list = list, !.status = d.outcome]
           ELSE amps' = [amps EXCEPT
                            !.program_list = list,
                            !.signal_amplitude = d.code,
                            !.index = IF k < Len(list) THEN k + 1 ELSE 1,
                            !.status = IF k < Len(list) THEN "send"
                                       ELSE IF all_programs_finished(list) THEN "returned"
                                       ELSE "send"]
    /\ UNCHANGED <<own, legacy, twin, clone>>

AmpNext == AmpSend \/ AmpStep \/ AmpCollect

AmpSpec == AmpInit /\ [][AmpNext]_vars

---------------------------------------------------------------------------
(* C25 *)

Last(s) == s[Len(s)]

\* the number of amplifiers
AmpCount == Len(amps.amp_phase_list)

\* C25: in AmplificationProgram.run, for the amplifier programs of the tests
\* (one output per signal): the programs are run in list order, round after
\* round; the first value a program consumes is its phase setting; the signal
\* sent to a program is the last output of its predecessor (0 for the first
\* program in the first round, the last program's last output for the first
\* program in a later round); the loop goes on to the next program inside a
\* round and ends at the end of the first round after which every program has
\* ran_to_completion = True; the value returned is the last program's last
\* output (43210 for the phases 4,3,2,1,0 and 139629729 for 9,8,7,6,5).
C25_AmplifierChainOrdering ==
    [][ /\ amps.status = "send" =>
               LET k == amps.index
                   pred == IF k = 1 THEN AmpCount ELSE k - 1
                   signal == IF Len(amps.order) = 0 THEN 0 ELSE Last(amps.emitted[pred])
               IN  /\ k = (Len(amps.order) % AmpCount) + 1
                   /\ amps'.order = Append(amps.order, k)
                   /\ amps'.program_list[k].program_input =
                          Append(amps.program_list[k].program_input, signal)
                   /\ Len(amps.order) > 0 =>
                          Len(amps.emitted[pred]) = Len(amps.emitted[k]) +
                                                    (IF k = 1 THEN 0 ELSE 1)
        /\ \A k \in 1..AmpCount :
               amps'.consumed[k] # <<>> => amps'.consumed[k][1] = amps.amp_phase_list[k]
        /\ amps.status = "running" => amps'.status \in {"running", "collect"}
        /\ amps.status = "collect" =>
               IF amps.index < AmpCount
               THEN amps'.status = "send" /\ amps'.index = amps.index + 1
               ELSE IF all_programs_finished(amps.program_list)
               THEN /\ amps'.status = "returned"
                    /\ amps'.signal_amplitude = Last(amps.emitted[AmpCount])
               ELSE amps'.status = "send" /\ amps'.index = 1
        /\ (amps'.status = "returned" /\ amps.amp_phase_list = <<4, 3, 2, 1, 0>>) =>
               amps'.signal_amplitude = 43210
        /\ (amps'.status = "returned" /\ amps.amp_phase_list = <<9, 8, 7, 6, 5>>) =>
               amps'.signal_amplitude = 139629729 ]_vars

\* the feedback loop of the phases 9,8,7,6,5 has returned 139629729 after
\* more than one round
C25_Witness ==
    /\ amps.status = "returned"
    /\ amps.amp_phase_list = <<9, 8, 7, 6, 5>>
    /\ amps.signal_amplitude = 139629729
    /\ Len(amps.order) > Len(amps.amp_phase_list)
    /\ all_programs_finished(amps.program_list)

===========================================================================
